---- MODULE Spec2Model ----
(***************************************************************************)
(* Transcribrr: the text-to-document pipeline of src/app.py,               *)
(* src/.streamlit/app.py and src/fancypdf.py.                              *)
(*                                                                         *)
(* A text is a sequence of characters; a character is a one-character      *)
(* string, except the two non-ASCII characters the code names, which are   *)
(* written "BOM" (U+FEFF) and "BULLET" (U+2022), and the whitespace        *)
(* characters a TLA+ string cannot hold, which are written by their code   *)
(* point ("U+000B", "U+00A0", ...); each stands for one character.         *)
(***************************************************************************)
EXTENDS Integers, Sequences, FiniteSets, TLC

VARIABLES
  normIn,     \* argument of clean_transcript_basic
  normOut,    \* its result
  normOut2,   \* the result of applying it to normOut
  normPc,     \* "start" | "once" | "twice"
  fragments,  \* transcript_list: the snippets of one video, in order
  flatOut,    \* result of format_original_transcript of src/app.py
  chunkOut,   \* result of format_original_transcript of src/.streamlit/app.py
  asmDone,    \* which of the two have run: a subset of {"flat", "chunked"}
  recIn,      \* text_input of clean_and_fix_text
  recOut,     \* its result
  recOut2,    \* the result of clean_and_fix_text on that result
  recPc,      \* "start" | "done" | "again"
  bFonts,     \* what the two calls of pdf.add_font do
  bSections,  \* processed_transcripts: the (title, text) pairs to render
  bResult,    \* what create_pdf_from_transcripts of src/app.py gave
  bPc,        \* "start" | "done"
  styTitle,   \* title of one pair given to create_fancy_pdf_from_transcripts
  styText,    \* text of that pair
  stySection, \* title_line and main_content_md the loop body derives from it
  styPc,      \* "start" | "done"
  video_list,       \* st.session_state.video_list
  final_pdf_data,   \* st.session_state.final_pdf_data
  channel_cache,    \* memo of st.cache_data around get_channel_videos
  transcript_cache, \* memo of st.cache_data around get_transcripts_for_videos
  run,              \* what the run of the script in progress, or the last one, did
  other_runs,       \* number of runs of the script made by other sessions
  fetchIn,        \* video_ids_to_fetch of get_transcripts_for_videos
  fetchOutcomes,  \* what the fetch of each of them does
  fetchOut,       \* the dict, the messages and the fetches made so far
  fetchPc         \* "loop" | "done" | "stopped"

normVars == <<normIn, normOut, normOut2, normPc>>
asmVars == <<fragments, flatOut, chunkOut, asmDone>>
recVars == <<recIn, recOut, recOut2, recPc>>
basicVars == <<bFonts, bSections, bResult, bPc>>
styVars == <<styTitle, styText, stySection, styPc>>
sessVars == <<video_list, final_pdf_data, channel_cache, transcript_cache, run, other_runs>>
fetchVars == <<fetchIn, fetchOutcomes, fetchOut, fetchPc>>
vars == <<normVars, asmVars, recVars, basicVars, styVars, sessVars, fetchVars>>

(***************************************************************************)
(* Bounds of the model                                                     *)
(***************************************************************************)
MaxNormPieces == 4
MaxFrags == 5
MaxRecPieces == 3
MaxSections == 3
MaxVideos == 2
MaxRuns == 3
MaxFetch == 3
MaxStyPieces == 3

(***************************************************************************)
(* Character classes of Python's re module for str patterns, which are     *)
(* Unicode classes (tables of Unicode 14.0.0, those of Python 3.11).  A    *)
(* character of ASCII is the one-character string; any other character is  *)
(* named by its code point, "U+" and at least four upper-case hex digits.  *)
(***************************************************************************)
UpperLetters ==
  <<"A","B","C","D","E","F","G","H","I","J","K","L","M",
    "N","O","P","Q","R","S","T","U","V","W","X","Y","Z">>

LowerLetters ==
  <<"a","b","c","d","e","f","g","h","i","j","k","l","m",
    "n","o","p","q","r","s","t","u","v","w","x","y","z">>

Digits == {"0","1","2","3","4","5","6","7","8","9"}

HexDigits == <<"0","1","2","3","4","5","6","7","8","9","A","B","C","D","E","F">>

RECURSIVE HexOf(_)
HexOf(n) ==
  IF n < 16 THEN HexDigits[n + 1]
  ELSE HexOf(n \div 16) \o HexDigits[(n % 16) + 1]

\* the name of the character of code point n
Tok(n) ==
  "U+" \o (IF n < 16 THEN "000" ELSE IF n < 256 THEN "00"
           ELSE IF n < 4096 THEN "0" ELSE "") \o HexOf(n)

\* the 650 decimal digits outside ASCII (category Nd), as ranges of code points
DigitChars ==
  { Tok(n) : n \in UNION { r[1]..r[2] : r \in
    { <<1632, 1641>>, <<1776, 1785>>, <<1984, 1993>>, <<2406, 2415>>,
      <<2534, 2543>>, <<2662, 2671>>, <<2790, 2799>>, <<2918, 2927>>,
      <<3046, 3055>>, <<3174, 3183>>, <<3302, 3311>>, <<3430, 3439>>,
      <<3558, 3567>>, <<3664, 3673>>, <<3792, 3801>>, <<3872, 3881>>,
      <<4160, 4169>>, <<4240, 4249>>, <<6112, 6121>>, <<6160, 6169>>,
      <<6470, 6479>>, <<6608, 6617>>, <<6784, 6793>>, <<6800, 6809>>,
      <<6992, 7001>>, <<7088, 7097>>, <<7232, 7241>>, <<7248, 7257>>,
      <<42528, 42537>>, <<43216, 43225>>, <<43264, 43273>>, <<43472, 43481>>,
      <<43504, 43513>>, <<43600, 43609>>, <<44016, 44025>>, <<65296, 65305>>,
      <<66720, 66729>>, <<68912, 68921>>, <<69734, 69743>>, <<69872, 69881>>,
      <<69942, 69951>>, <<70096, 70105>>, <<70384, 70393>>, <<70736, 70745>>,
      <<70864, 70873>>, <<71248, 71257>>, <<71360, 71369>>, <<71472, 71481>>,
      <<71904, 71913>>, <<72016, 72025>>, <<72784, 72793>>, <<73040, 73049>>,
      <<73120, 73129>>, <<92768, 92777>>, <<92864, 92873>>, <<93008, 93017>>,
      <<120782, 120831>>, <<123200, 123209>>, <<123632, 123641>>, <<125264, 125273>>,
      <<130032, 130041>> } } }

\* the 133485 alphanumeric characters outside ASCII (str.isalnum), as ranges of
\* code points
WordChars ==
  { Tok(n) : n \in UNION { r[1]..r[2] : r \in
    { <<170, 170>>, <<178, 179>>, <<181, 181>>, <<185, 186>>,
      <<188, 190>>, <<192, 214>>, <<216, 246>>, <<248, 705>>,
      <<710, 721>>, <<736, 740>>, <<748, 748>>, <<750, 750>>,
      <<880, 884>>, <<886, 887>>, <<890, 893>>, <<895, 895>>,
      <<902, 902>>, <<904, 906>>, <<908, 908>>, <<910, 929>>,
      <<931, 1013>>, <<1015, 1153>>, <<1162, 1327>>, <<1329, 1366>>,
      <<1369, 1369>>, <<1376, 1416>>, <<1488, 1514>>, <<1519, 1522>>,
      <<1568, 1610>>, <<1632, 1641>>, <<1646, 1647>>, <<1649, 1747>>,
      <<1749, 1749>>, <<1765, 1766>>, <<1774, 1788>>, <<1791, 1791>>,
      <<1808, 1808>>, <<1810, 1839>>, <<1869, 1957>>, <<1969, 1969>>,
      <<1984, 2026>>, <<2036, 2037>>, <<2042, 2042>>, <<2048, 2069>>,
      <<2074, 2074>>, <<2084, 2084>>, <<2088, 2088>>, <<2112, 2136>>,
      <<2144, 2154>>, <<2160, 2183>>, <<2185, 2190>>, <<2208, 2249>>,
      <<2308, 2361>>, <<2365, 2365>>, <<2384, 2384>>, <<2392, 2401>>,
      <<2406, 2415>>, <<2417, 2432>>, <<2437, 2444>>, <<2447, 2448>>,
      <<2451, 2472>>, <<2474, 2480>>, <<2482, 2482>>, <<2486, 2489>>,
      <<2493, 2493>>, <<2510, 2510>>, <<2524, 2525>>, <<2527, 2529>>,
      <<2534, 2545>>, <<2548, 2553>>, <<2556, 2556>>, <<2565, 2570>>,
      <<2575, 2576>>, <<2579, 2600>>, <<2602, 2608>>, <<2610, 2611>>,
      <<2613, 2614>>, <<2616, 2617>>, <<2649, 2652>>, <<2654, 2654>>,
      <<2662, 2671>>, <<2674, 2676>>, <<2693, 2701>>, <<2703, 2705>>,
      <<2707, 2728>>, <<2730, 2736>>, <<2738, 2739>>, <<2741, 2745>>,
      <<2749, 2749>>, <<2768, 2768>>, <<2784, 2785>>, <<2790, 2799>>,
      <<2809, 2809>>, <<2821, 2828>>, <<2831, 2832>>, <<2835, 2856>>,
      <<2858, 2864>>, <<2866, 2867>>, <<2869, 2873>>, <<2877, 2877>>,
      <<2908, 2909>>, <<2911, 2913>>, <<2918, 2927>>, <<2929, 2935>>,
      <<2947, 2947>>, <<2949, 2954>>, <<2958, 2960>>, <<2962, 2965>>,
      <<2969, 2970>>, <<2972, 2972>>, <<2974, 2975>>, <<2979, 2980>>,
      <<2984, 2986>>, <<2990, 3001>>, <<3024, 3024>>, <<3046, 3058>>,
      <<3077, 3084>>, <<3086, 3088>>, <<3090, 3112>>, <<3114, 3129>>,
      <<3133, 3133>>, <<3160, 3162>>, <<3165, 3165>>, <<3168, 3169>>,
      <<3174, 3183>>, <<3192, 3198>>, <<3200, 3200>>, <<3205, 3212>>,
      <<3214, 3216>>, <<3218, 3240>>, <<3242, 3251>>, <<3253, 3257>>,
      <<3261, 3261>>, <<3293, 3294>>, <<3296, 3297>>, <<3302, 3311>>,
      <<3313, 3314>>, <<3332, 3340>>, <<3342, 3344>>, <<3346, 3386>>,
      <<3389, 3389>>, <<3406, 3406>>, <<3412, 3414>>, <<3416, 3425>>,
      <<3430, 3448>>, <<3450, 3455>>, <<3461, 3478>>, <<3482, 3505>>,
      <<3507, 3515>>, <<3517, 3517>>, <<3520, 3526>>, <<3558, 3567>>,
      <<3585, 3632>>, <<3634, 3635>>, <<3648, 3654>>, <<3664, 3673>>,
      <<3713, 3714>>, <<3716, 3716>>, <<3718, 3722>>, <<3724, 3747>>,
      <<3749, 3749>>, <<3751, 3760>>, <<3762, 3763>>, <<3773, 3773>>,
      <<3776, 3780>>, <<3782, 3782>>, <<3792, 3801>>, <<3804, 3807>>,
      <<3840, 3840>>, <<3872, 3891>>, <<3904, 3911>>, <<3913, 3948>>,
      <<3976, 3980>>, <<4096, 4138>>, <<4159, 4169>>, <<4176, 4181>>,
      <<4186, 4189>>, <<4193, 4193>>, <<4197, 4198>>, <<4206, 4208>>,
      <<4213, 4225>>, <<4238, 4238>>, <<4240, 4249>>, <<4256, 4293>>,
      <<4295, 4295>>, <<4301, 4301>>, <<4304, 4346>>, <<4348, 4680>>,
      <<4682, 4685>>, <<4688, 4694>>, <<4696, 4696>>, <<4698, 4701>>,
      <<4704, 4744>>, <<4746, 4749>>, <<4752, 4784>>, <<4786, 4789>>,
      <<4792, 4798>>, <<4800, 4800>>, <<4802, 4805>>, <<4808, 4822>>,
      <<4824, 4880>>, <<4882, 4885>>, <<4888, 4954>>, <<4969, 4988>>,
      <<4992, 5007>>, <<5024, 5109>>, <<5112, 5117>>, <<5121, 5740>>,
      <<5743, 5759>>, <<5761, 5786>>, <<5792, 5866>>, <<5870, 5880>>,
      <<5888, 5905>>, <<5919, 5937>>, <<5952, 5969>>, <<5984, 5996>>,
      <<5998, 6000>>, <<6016, 6067>>, <<6103, 6103>>, <<6108, 6108>>,
      <<6112, 6121>>, <<6128, 6137>>, <<6160, 6169>>, <<6176, 6264>>,
      <<6272, 6276>>, <<6279, 6312>>, <<6314, 6314>>, <<6320, 6389>>,
      <<6400, 6430>>, <<6470, 6509>>, <<6512, 6516>>, <<6528, 6571>>,
      <<6576, 6601>>, <<6608, 6618>>, <<6656, 6678>>, <<6688, 6740>>,
      <<6784, 6793>>, <<6800, 6809>>, <<6823, 6823>>, <<6917, 6963>>,
      <<6981, 6988>>, <<6992, 7001>>, <<7043, 7072>>, <<7086, 7141>>,
      <<7168, 7203>>, <<7232, 7241>>, <<7245, 7293>>, <<7296, 7304>>,
      <<7312, 7354>>, <<7357, 7359>>, <<7401, 7404>>, <<7406, 7411>>,
      <<7413, 7414>>, <<7418, 7418>>, <<7424, 7615>>, <<7680, 7957>>,
      <<7960, 7965>>, <<7968, 8005>>, <<8008, 8013>>, <<8016, 8023>>,
      <<8025, 8025>>, <<8027, 8027>>, <<8029, 8029>>, <<8031, 8061>>,
      <<8064, 8116>>, <<8118, 8124>>, <<8126, 8126>>, <<8130, 8132>>,
      <<8134, 8140>>, <<8144, 8147>>, <<8150, 8155>>, <<8160, 8172>>,
      <<8178, 8180>>, <<8182, 8188>>, <<8304, 8305>>, <<8308, 8313>>,
      <<8319, 8329>>, <<8336, 8348>>, <<8450, 8450>>, <<8455, 8455>>,
      <<8458, 8467>>, <<8469, 8469>>, <<8473, 8477>>, <<8484, 8484>>,
      <<8486, 8486>>, <<8488, 8488>>, <<8490, 8493>>, <<8495, 8505>>,
      <<8508, 8511>>, <<8517, 8521>>, <<8526, 8526>>, <<8528, 8585>>,
      <<9312, 9371>>, <<9450, 9471>>, <<10102, 10131>>, <<11264, 11492>>,
      <<11499, 11502>>, <<11506, 11507>>, <<11517, 11517>>, <<11520, 11557>>,
      <<11559, 11559>>, <<11565, 11565>>, <<11568, 11623>>, <<11631, 11631>>,
      <<11648, 11670>>, <<11680, 11686>>, <<11688, 11694>>, <<11696, 11702>>,
      <<11704, 11710>>, <<11712, 11718>>, <<11720, 11726>>, <<11728, 11734>>,
      <<11736, 11742>>, <<11823, 11823>>, <<12293, 12295>>, <<12321, 12329>>,
      <<12337, 12341>>, <<12344, 12348>>, <<12353, 12438>>, <<12445, 12447>>,
      <<12449, 12538>>, <<12540, 12543>>, <<12549, 12591>>, <<12593, 12686>>,
      <<12690, 12693>>, <<12704, 12735>>, <<12784, 12799>>, <<12832, 12841>>,
      <<12872, 12879>>, <<12881, 12895>>, <<12928, 12937>>, <<12977, 12991>>,
      <<13312, 19903>>, <<19968, 42124>>, <<42192, 42237>>, <<42240, 42508>>,
      <<42512, 42539>>, <<42560, 42606>>, <<42623, 42653>>, <<42656, 42735>>,
      <<42775, 42783>>, <<42786, 42888>>, <<42891, 42954>>, <<42960, 42961>>,
      <<42963, 42963>>, <<42965, 42969>>, <<42994, 43009>>, <<43011, 43013>>,
      <<43015, 43018>>, <<43020, 43042>>, <<43056, 43061>>, <<43072, 43123>>,
      <<43138, 43187>>, <<43216, 43225>>, <<43250, 43255>>, <<43259, 43259>>,
      <<43261, 43262>>, <<43264, 43301>>, <<43312, 43334>>, <<43360, 43388>>,
      <<43396, 43442>>, <<43471, 43481>>, <<43488, 43492>>, <<43494, 43518>>,
      <<43520, 43560>>, <<43584, 43586>>, <<43588, 43595>>, <<43600, 43609>>,
      <<43616, 43638>>, <<43642, 43642>>, <<43646, 43695>>, <<43697, 43697>>,
      <<43701, 43702>>, <<43705, 43709>>, <<43712, 43712>>, <<43714, 43714>>,
      <<43739, 43741>>, <<43744, 43754>>, <<43762, 43764>>, <<43777, 43782>>,
      <<43785, 43790>>, <<43793, 43798>>, <<43808, 43814>>, <<43816, 43822>>,
      <<43824, 43866>>, <<43868, 43881>>, <<43888, 44002>>, <<44016, 44025>>,
      <<44032, 55203>>, <<55216, 55238>>, <<55243, 55291>>, <<63744, 64109>>,
      <<64112, 64217>>, <<64256, 64262>>, <<64275, 64279>>, <<64285, 64285>>,
      <<64287, 64296>>, <<64298, 64310>>, <<64312, 64316>>, <<64318, 64318>>,
      <<64320, 64321>>, <<64323, 64324>>, <<64326, 64433>>, <<64467, 64829>>,
      <<64848, 64911>>, <<64914, 64967>>, <<65008, 65019>>, <<65136, 65140>>,
      <<65142, 65276>>, <<65296, 65305>>, <<65313, 65338>>, <<65345, 65370>>,
      <<65382, 65470>>, <<65474, 65479>>, <<65482, 65487>>, <<65490, 65495>>,
      <<65498, 65500>>, <<65536, 65547>>, <<65549, 65574>>, <<65576, 65594>>,
      <<65596, 65597>>, <<65599, 65613>>, <<65616, 65629>>, <<65664, 65786>>,
      <<65799, 65843>>, <<65856, 65912>>, <<65930, 65931>>, <<66176, 66204>>,
      <<66208, 66256>>, <<66273, 66299>>, <<66304, 66339>>, <<66349, 66378>>,
      <<66384, 66421>>, <<66432, 66461>>, <<66464, 66499>>, <<66504, 66511>>,
      <<66513, 66517>>, <<66560, 66717>>, <<66720, 66729>>, <<66736, 66771>>,
      <<66776, 66811>>, <<66816, 66855>>, <<66864, 66915>>, <<66928, 66938>>,
      <<66940, 66954>>, <<66956, 66962>>, <<66964, 66965>>, <<66967, 66977>>,
      <<66979, 66993>>, <<66995, 67001>>, <<67003, 67004>>, <<67072, 67382>>,
      <<67392, 67413>>, <<67424, 67431>>, <<67456, 67461>>, <<67463, 67504>>,
      <<67506, 67514>>, <<67584, 67589>>, <<67592, 67592>>, <<67594, 67637>>,
      <<67639, 67640>>, <<67644, 67644>>, <<67647, 67669>>, <<67672, 67702>>,
      <<67705, 67742>>, <<67751, 67759>>, <<67808, 67826>>, <<67828, 67829>>,
      <<67835, 67867>>, <<67872, 67897>>, <<67968, 68023>>, <<68028, 68047>>,
      <<68050, 68096>>, <<68112, 68115>>, <<68117, 68119>>, <<68121, 68149>>,
      <<68160, 68168>>, <<68192, 68222>>, <<68224, 68255>>, <<68288, 68295>>,
      <<68297, 68324>>, <<68331, 68335>>, <<68352, 68405>>, <<68416, 68437>>,
      <<68440, 68466>>, <<68472, 68497>>, <<68521, 68527>>, <<68608, 68680>>,
      <<68736, 68786>>, <<68800, 68850>>, <<68858, 68899>>, <<68912, 68921>>,
      <<69216, 69246>>, <<69248, 69289>>, <<69296, 69297>>, <<69376, 69415>>,
      <<69424, 69445>>, <<69457, 69460>>, <<69488, 69505>>, <<69552, 69579>>,
      <<69600, 69622>>, <<69635, 69687>>, <<69714, 69743>>, <<69745, 69746>>,
      <<69749, 69749>>, <<69763, 69807>>, <<69840, 69864>>, <<69872, 69881>>,
      <<69891, 69926>>, <<69942, 69951>>, <<69956, 69956>>, <<69959, 69959>>,
      <<69968, 70002>>, <<70006, 70006>>, <<70019, 70066>>, <<70081, 70084>>,
      <<70096, 70106>>, <<70108, 70108>>, <<70113, 70132>>, <<70144, 70161>>,
      <<70163, 70187>>, <<70272, 70278>>, <<70280, 70280>>, <<70282, 70285>>,
      <<70287, 70301>>, <<70303, 70312>>, <<70320, 70366>>, <<70384, 70393>>,
      <<70405, 70412>>, <<70415, 70416>>, <<70419, 70440>>, <<70442, 70448>>,
      <<70450, 70451>>, <<70453, 70457>>, <<70461, 70461>>, <<70480, 70480>>,
      <<70493, 70497>>, <<70656, 70708>>, <<70727, 70730>>, <<70736, 70745>>,
      <<70751, 70753>>, <<70784, 70831>>, <<70852, 70853>>, <<70855, 70855>>,
      <<70864, 70873>>, <<71040, 71086>>, <<71128, 71131>>, <<71168, 71215>>,
      <<71236, 71236>>, <<71248, 71257>>, <<71296, 71338>>, <<71352, 71352>>,
      <<71360, 71369>>, <<71424, 71450>>, <<71472, 71483>>, <<71488, 71494>>,
      <<71680, 71723>>, <<71840, 71922>>, <<71935, 71942>>, <<71945, 71945>>,
      <<71948, 71955>>, <<71957, 71958>>, <<71960, 71983>>, <<71999, 71999>>,
      <<72001, 72001>>, <<72016, 72025>>, <<72096, 72103>>, <<72106, 72144>>,
      <<72161, 72161>>, <<72163, 72163>>, <<72192, 72192>>, <<72203, 72242>>,
      <<72250, 72250>>, <<72272, 72272>>, <<72284, 72329>>, <<72349, 72349>>,
      <<72368, 72440>>, <<72704, 72712>>, <<72714, 72750>>, <<72768, 72768>>,
      <<72784, 72812>>, <<72818, 72847>>, <<72960, 72966>>, <<72968, 72969>>,
      <<72971, 73008>>, <<73030, 73030>>, <<73040, 73049>>, <<73056, 73061>>,
      <<73063, 73064>>, <<73066, 73097>>, <<73112, 73112>>, <<73120, 73129>>,
      <<73440, 73458>>, <<73648, 73648>>, <<73664, 73684>>, <<73728, 74649>>,
      <<74752, 74862>>, <<74880, 75075>>, <<77712, 77808>>, <<77824, 78894>>,
      <<82944, 83526>>, <<92160, 92728>>, <<92736, 92766>>, <<92768, 92777>>,
      <<92784, 92862>>, <<92864, 92873>>, <<92880, 92909>>, <<92928, 92975>>,
      <<92992, 92995>>, <<93008, 93017>>, <<93019, 93025>>, <<93027, 93047>>,
      <<93053, 93071>>, <<93760, 93846>>, <<93952, 94026>>, <<94032, 94032>>,
      <<94099, 94111>>, <<94176, 94177>>, <<94179, 94179>>, <<94208, 100343>>,
      <<100352, 101589>>, <<101632, 101640>>, <<110576, 110579>>, <<110581, 110587>>,
      <<110589, 110590>>, <<110592, 110882>>, <<110928, 110930>>, <<110948, 110951>>,
      <<110960, 111355>>, <<113664, 113770>>, <<113776, 113788>>, <<113792, 113800>>,
      <<113808, 113817>>, <<119520, 119539>>, <<119648, 119672>>, <<119808, 119892>>,
      <<119894, 119964>>, <<119966, 119967>>, <<119970, 119970>>, <<119973, 119974>>,
      <<119977, 119980>>, <<119982, 119993>>, <<119995, 119995>>, <<119997, 120003>>,
      <<120005, 120069>>, <<120071, 120074>>, <<120077, 120084>>, <<120086, 120092>>,
      <<120094, 120121>>, <<120123, 120126>>, <<120128, 120132>>, <<120134, 120134>>,
      <<120138, 120144>>, <<120146, 120485>>, <<120488, 120512>>, <<120514, 120538>>,
      <<120540, 120570>>, <<120572, 120596>>, <<120598, 120628>>, <<120630, 120654>>,
      <<120656, 120686>>, <<120688, 120712>>, <<120714, 120744>>, <<120746, 120770>>,
      <<120772, 120779>>, <<120782, 120831>>, <<122624, 122654>>, <<123136, 123180>>,
      <<123191, 123197>>, <<123200, 123209>>, <<123214, 123214>>, <<123536, 123565>>,
      <<123584, 123627>>, <<123632, 123641>>, <<124896, 124902>>, <<124904, 124907>>,
      <<124909, 124910>>, <<124912, 124926>>, <<124928, 125124>>, <<125127, 125135>>,
      <<125184, 125251>>, <<125259, 125259>>, <<125264, 125273>>, <<126065, 126123>>,
      <<126125, 126127>>, <<126129, 126132>>, <<126209, 126253>>, <<126255, 126269>>,
      <<126464, 126467>>, <<126469, 126495>>, <<126497, 126498>>, <<126500, 126500>>,
      <<126503, 126503>>, <<126505, 126514>>, <<126516, 126519>>, <<126521, 126521>>,
      <<126523, 126523>>, <<126530, 126530>>, <<126535, 126535>>, <<126537, 126537>>,
      <<126539, 126539>>, <<126541, 126543>>, <<126545, 126546>>, <<126548, 126548>>,
      <<126551, 126551>>, <<126553, 126553>>, <<126555, 126555>>, <<126557, 126557>>,
      <<126559, 126559>>, <<126561, 126562>>, <<126564, 126564>>, <<126567, 126570>>,
      <<126572, 126578>>, <<126580, 126583>>, <<126585, 126588>>, <<126590, 126590>>,
      <<126592, 126601>>, <<126603, 126619>>, <<126625, 126627>>, <<126629, 126633>>,
      <<126635, 126651>>, <<127232, 127244>>, <<130032, 130041>>, <<131072, 173791>>,
      <<173824, 177976>>, <<177984, 178205>>, <<178208, 183969>>, <<183984, 191456>>,
      <<194560, 195101>>, <<196608, 201546>> } } }

\* [A-Z]  (no flag: ASCII only)
IsUpper(c) == \E k \in 1..26 : UpperLetters[k] = c

IsLower(c) == \E k \in 1..26 : LowerLetters[k] = c

\* \d
IsDigit(c) == c \in Digits \/ c \in DigitChars

\* vertical tab and no-break space, as examples of the whitespace below
VT == "U+000B"

NBSP == "U+00A0"

\* the 29 characters of str.isspace(): what \s matches in a str pattern and
\* what str.strip() removes
WhitespaceChars ==
  {" ", "\t", "\n", "\r", "\f", VT,
   "U+001C", "U+001D", "U+001E", "U+001F", "U+0085", NBSP, "U+1680",
   "U+2000", "U+2001", "U+2002", "U+2003", "U+2004", "U+2005", "U+2006",
   "U+2007", "U+2008", "U+2009", "U+200A", "U+2028", "U+2029", "U+202F",
   "U+205F", "U+3000"}

\* \s  (also what str.strip() removes)
IsSpace(c) == c \in WhitespaceChars

\* \w
IsWord(c) == IsUpper(c) \/ IsLower(c) \/ c \in Digits \/ c = "_" \/ c \in WordChars

\* [,.!?]
IsPunct(c) == c \in {",", ".", "!", "?"}

\* case folding of re.IGNORECASE: two characters match each other when their
\* folds are equal.  Outside ASCII, a letter of the patterns of line 46 is
\* matched by U+0130 and U+0131 (i), U+017F (s) and U+212A (k), and by nothing
\* else.
Lower(c) ==
  IF IsUpper(c) THEN LowerLetters[CHOOSE k \in 1..26 : UpperLetters[k] = c]
  ELSE IF c \in {"U+0130", "U+0131"} THEN "i"
  ELSE IF c = "U+017F" THEN "s"
  ELSE IF c = "U+212A" THEN "k"
  ELSE c

(***************************************************************************)
(* Generic helpers on texts                                                *)
(***************************************************************************)
\* the first index >= i whose character is not whitespace, Len(s)+1 if none
RECURSIVE SkipWs(_, _)
SkipWs(s, i) ==
  IF i > Len(s) THEN i
  ELSE IF IsSpace(s[i]) THEN SkipWs(s, i + 1) ELSE i

\* the last index <= i whose character is not whitespace, 0 if none
RECURSIVE SkipWsBack(_, _)
SkipWsBack(s, i) ==
  IF i < 1 THEN 0
  ELSE IF IsSpace(s[i]) THEN SkipWsBack(s, i - 1) ELSE i

\* str.strip()
Strip(s) == SubSeq(s, SkipWs(s, 1), SkipWsBack(s, Len(s)))

\* the literal lit occurs in s at index i
LitAt(s, i, lit) ==
  /\ i >= 1
  /\ i + Len(lit) - 1 <= Len(s)
  /\ \A k \in 1..Len(lit) : s[i + k - 1] = lit[k]

\* the literal lit occurs in s at index i, ignoring case
LitAtNoCase(s, i, lit) ==
  /\ i >= 1
  /\ i + Len(lit) - 1 <= Len(s)
  /\ \A k \in 1..Len(lit) : Lower(s[i + k - 1]) = Lower(lit[k])

\* str.join
RECURSIVE Join(_, _)
Join(seqs, sep) ==
  IF Len(seqs) = 0 THEN <<>>
  ELSE IF Len(seqs) = 1 THEN seqs[1]
  ELSE seqs[1] \o sep \o Join(Tail(seqs), sep)

\* the concatenation of a sequence of texts
RECURSIVE Flatten(_)
Flatten(seqs) ==
  IF Len(seqs) = 0 THEN <<>> ELSE seqs[1] \o Flatten(Tail(seqs))

(***************************************************************************)
(* re.sub(pattern, repl, s) for a pattern that matches no empty string.    *)
(* MatchAt(s, j): the pattern matches at index j; MatchEnd(s, j): the      *)
(* index after that match; Repl(s, j): the text that replaces it.  The     *)
(* scan takes the leftmost match at or after i, copies the text before it, *)
(* emits the replacement and goes on after the match.                      *)
(***************************************************************************)
MinOf(S) == CHOOSE j \in S : \A k \in S : j <= k

RECURSIVE ReSubFrom(_, _, _, _, _)
ReSubFrom(MatchEnd(_, _), Repl(_, _), s, cands, i) ==
  LET rest == { j \in cands : j >= i }
  IN  IF rest = {} THEN SubSeq(s, i, Len(s))
      ELSE LET j == MinOf(rest)
           IN  SubSeq(s, i, j - 1) \o Repl(s, j)
                 \o ReSubFrom(MatchEnd, Repl, s, cands, MatchEnd(s, j))

ReSub(MatchAt(_, _), MatchEnd(_, _), Repl(_, _), s) ==
  ReSubFrom(MatchEnd, Repl, s, { j \in 1..Len(s) : MatchAt(s, j) }, 1)

(***************************************************************************)
(* Text Normalizer: clean_transcript_basic (src/app.py 27-49)              *)
(***************************************************************************)
\* a mutant of CollapseWs: every whitespace character becomes a space
CollapseWsEach(s) == [k \in 1..Len(s) |-> IF IsSpace(s[k]) THEN " " ELSE s[k]]

\* re.sub(r'\s+', ' ', text)
CollapseWs(s) ==
  ReSub(LAMBDA t, j : IsSpace(t[j]),
        LAMBDA t, j : SkipWs(t, j),
        LAMBDA t, j : <<" ">>,
        s)

\* \b at the gap before index i (between s[i-1] and s[i])
WordBoundary(s, i) ==
  LET before == i > 1 /\ i - 1 <= Len(s) /\ IsWord(s[i - 1])
      after  == i >= 1 /\ i <= Len(s) /\ IsWord(s[i])
  IN  before # after

\* the contraction table, in the insertion order of the dict
contractions ==
  << [kind |-> "ws", pat |-> <<"i">>, rep |-> <<"I"," ">>],
     [kind |-> "word", pat |-> <<"i","m">>, rep |-> <<"I","'","m">>],
     [kind |-> "word", pat |-> <<"i","d">>, rep |-> <<"I","'","d">>],
     [kind |-> "word", pat |-> <<"i","v","e">>, rep |-> <<"I","'","v","e">>],
     [kind |-> "word", pat |-> <<"y","o","u","r","e">>, rep |-> <<"y","o","u","'","r","e">>],
     [kind |-> "word", pat |-> <<"y","o","u","v","e">>, rep |-> <<"y","o","u","'","v","e">>],
     [kind |-> "word", pat |-> <<"h","e","s">>, rep |-> <<"h","e","'","s">>],
     [kind |-> "word", pat |-> <<"s","h","e","s">>, rep |-> <<"s","h","e","'","s">>],
     [kind |-> "word", pat |-> <<"i","t","s">>, rep |-> <<"i","t","'","s">>],
     [kind |-> "word", pat |-> <<"t","h","e","y","r","e">>, rep |-> <<"t","h","e","y","'","r","e">>],
     [kind |-> "word", pat |-> <<"t","h","e","y","v","e">>, rep |-> <<"t","h","e","y","'","v","e">>],
     [kind |-> "word", pat |-> <<"w","e","v","e">>, rep |-> <<"w","e","'","v","e">>],
     [kind |-> "word", pat |-> <<"w","e","r","e">>, rep |-> <<"w","e","'","r","e">>],
     [kind |-> "word", pat |-> <<"d","o","n","t">>, rep |-> <<"d","o","n","'","t">>],
     [kind |-> "word", pat |-> <<"w","o","n","t">>, rep |-> <<"w","o","n","'","t">>],
     [kind |-> "word", pat |-> <<"c","a","n","t">>, rep |-> <<"c","a","n","'","t">>],
     [kind |-> "word", pat |-> <<"i","s","n","t">>, rep |-> <<"i","s","n","'","t">>],
     [kind |-> "word", pat |-> <<"w","a","s","n","t">>, rep |-> <<"w","a","s","n","'","t">>],
     [kind |-> "word", pat |-> <<"a","r","e","n","t">>, rep |-> <<"a","r","e","n","'","t">>],
     [kind |-> "word", pat |-> <<"d","i","d","n","t">>, rep |-> <<"d","i","d","n","'","t">>],
     [kind |-> "word", pat |-> <<"d","o","e","s","n","t">>, rep |-> <<"d","o","e","s","n","'","t">>],
     [kind |-> "word", pat |-> <<"h","a","v","e","n","t">>, rep |-> <<"h","a","v","e","n","'","t">>],
     [kind |-> "word", pat |-> <<"h","a","s","n","t">>, rep |-> <<"h","a","s","n","'","t">>],
     [kind |-> "word", pat |-> <<"h","a","d","n","t">>, rep |-> <<"h","a","d","n","'","t">>],
     [kind |-> "word", pat |-> <<"w","o","u","l","d","n","t">>, rep |-> <<"w","o","u","l","d","n","'","t">>],
     [kind |-> "word", pat |-> <<"s","h","o","u","l","d","n","t">>, rep |-> <<"s","h","o","u","l","d","n","'","t">>],
     [kind |-> "word", pat |-> <<"c","o","u","l","d","n","t">>, rep |-> <<"c","o","u","l","d","n","'","t">>],
     [kind |-> "word", pat |-> <<"t","h","a","t","s">>, rep |-> <<"t","h","a","t","'","s">>],
     [kind |-> "word", pat |-> <<"w","h","a","t","s">>, rep |-> <<"w","h","a","t","'","s">>],
     [kind |-> "word", pat |-> <<"w","h","e","r","e","s">>, rep |-> <<"w","h","e","r","e","'","s">>] >>

\* re.sub(r'\b<pat>\b', rep, s, flags=re.IGNORECASE)
SubWord(s, pat, rep) ==
  ReSub(LAMBDA t, j : /\ LitAtNoCase(t, j, pat)
                      /\ WordBoundary(t, j)
                      /\ WordBoundary(t, j + Len(pat)),
        LAMBDA t, j : j + Len(pat),
        LAMBDA t, j : rep,
        s)

\* a mutant of SubWordWs: the pattern is \b<pat>\b, as in the other entries
SubWordWsAsWord(s, pat, rep) == SubWord(s, pat, rep)

\* re.sub(r'\b<pat>\s+', rep, s, flags=re.IGNORECASE)
SubWordWs(s, pat, rep) ==
  ReSub(LAMBDA t, j : /\ LitAtNoCase(t, j, pat)
                      /\ WordBoundary(t, j)
                      /\ j + Len(pat) <= Len(t)
                      /\ IsSpace(t[j + Len(pat)]),
        LAMBDA t, j : SkipWs(t, j + Len(pat)),
        LAMBDA t, j : rep,
        s)

\* one entry of the table applied to the whole text
ApplyContraction(s, c) ==
  IF c.kind = "ws" THEN SubWordWs(s, c.pat, c.rep)
  ELSE SubWord(s, c.pat, c.rep)

\* the loop over contractions.items(): entries k..30 applied in order
RECURSIVE ApplyContractionsFrom(_, _)
ApplyContractionsFrom(s, k) ==
  IF k > Len(contractions) \/ s = <<>> THEN s
  ELSE ApplyContractionsFrom(ApplyContraction(s, contractions[k]), k + 1)

\* a mutant of RemoveWsBeforePunct: the whitespace is kept
RemoveWsBeforePunctKeeps(s) == s

\* re.sub(r'\s+([,.!?])', r'\1', s)
RemoveWsBeforePunct(s) ==
  ReSub(LAMBDA t, j : /\ IsSpace(t[j])
                      /\ SkipWs(t, j) <= Len(t)
                      /\ IsPunct(t[SkipWs(t, j)]),
        LAMBDA t, j : SkipWs(t, j) + 1,
        LAMBDA t, j : <<t[SkipWs(t, j)]>>,
        s)

\* re.sub(r'([,.!?])(\w)', r'\1 \2', s)
SpaceAfterPunct(s) ==
  ReSub(LAMBDA t, j : IsPunct(t[j]) /\ j + 1 <= Len(t) /\ IsWord(t[j + 1]),
        LAMBDA t, j : j + 2,
        LAMBDA t, j : <<t[j], " ", t[j + 1]>>,
        s)

clean_transcript_basic(text) ==
  LET t1 == Strip(CollapseWs(text))
      t2 == ApplyContractionsFrom(t1, 1)
      t3 == RemoveWsBeforePunct(t2)
  IN  SpaceAfterPunct(t3)

(***************************************************************************)
(* Inputs of the normalizer: concatenations of at most MaxNormPieces       *)
(* pieces                                                                  *)
(***************************************************************************)
\* U+0131 (dotless i) is a word character outside ASCII that re.IGNORECASE
\* matches with the letter i
NormPieces ==
  { <<" ">>, <<"\n">>, <<VT>>, <<"i">>, <<"I">>, <<"m">>, <<".">>, <<"'">>,
    <<"U+0131">>, <<"d","o","n","t">> }

PieceSeqs(P, n) == UNION { [1..k -> P] : k \in 0..n }

NormInputs == { Flatten(ps) : ps \in PieceSeqs(NormPieces, MaxNormPieces) }

(***************************************************************************)
(* Specification of the normalizer: the function applied once, then again  *)
(* to its own result                                                       *)
(***************************************************************************)
IdleNormalizer ==
  /\ normIn = <<>>
  /\ normOut = <<>>
  /\ normOut2 = <<>>
  /\ normPc = "idle"

IdleAssembler ==
  /\ fragments = <<>>
  /\ flatOut = <<>>
  /\ chunkOut = <<>>
  /\ asmDone = {"idle"}

IdleReconstructor ==
  /\ recIn = <<>>
  /\ recOut = <<>>
  /\ recOut2 = <<>>
  /\ recPc = "idle"

IdleBasic ==
  /\ bFonts = "added"
  /\ bSections = <<>>
  /\ bResult = [kind |-> "none"]
  /\ bPc = "idle"

IdleStyled ==
  /\ styTitle = <<>>
  /\ styText = <<>>
  /\ stySection = [title_line |-> <<>>, main_content_md |-> <<>>]
  /\ styPc = "idle"

IdleSession ==
  /\ video_list = <<>>
  /\ final_pdf_data = [kind |-> "None"]
  /\ channel_cache = <<>>
  /\ transcript_cache = <<>>
  /\ run = [kind |-> "idle"]
  /\ other_runs = 0

IdleFetch ==
  /\ fetchIn = <<>>
  /\ fetchOutcomes = <<>>
  /\ fetchOut = [transcripts |-> <<>>, messages |-> <<>>, fetched |-> <<>>]
  /\ fetchPc = "idle"

InitNormalizer ==
  /\ normIn \in NormInputs
  /\ normOut = <<>>
  /\ normOut2 = <<>>
  /\ normPc = "start"
  /\ IdleAssembler
  /\ IdleReconstructor
  /\ IdleBasic
  /\ IdleStyled
  /\ IdleSession
  /\ IdleFetch

Normalize ==
  /\ normPc = "start"
  /\ normOut' = clean_transcript_basic(normIn)
  /\ normPc' = "once"
  /\ UNCHANGED <<normIn, normOut2, asmVars, recVars, basicVars, styVars, sessVars, fetchVars>>

NormalizeAgain ==
  /\ normPc = "once"
  /\ normOut2' = clean_transcript_basic(normOut)
  /\ normPc' = "twice"
  /\ UNCHANGED <<normIn, normOut, asmVars, recVars, basicVars, styVars, sessVars, fetchVars>>

NextNormalizer == Normalize \/ NormalizeAgain

SpecNormalizer == InitNormalizer /\ [][NextNormalizer]_vars

(***************************************************************************)
(* Paragraph Assembler: the two versions of format_original_transcript     *)
(***************************************************************************)
\* [snippet['text'] for snippet in transcript_list]
SnippetTexts(transcript_list) ==
  [k \in 1..Len(transcript_list) |-> transcript_list[k].text]

\* a mutant of format_original_transcript: the snippets are joined with
\* nothing between them
format_original_transcript_nosep(transcript_list) ==
  clean_transcript_basic(Join(SnippetTexts(transcript_list), <<>>))

\* Flat (src/app.py 175-190): join all the raw texts with one space, then
\* clean the whole block once
format_original_transcript(transcript_list) ==
  clean_transcript_basic(Join(SnippetTexts(transcript_list), <<" ">>))

\* cleaned_snippets of the chunked version
CleanedSnippets(transcript_list) ==
  [k \in 1..Len(transcript_list) |->
     clean_transcript_basic(transcript_list[k].text)]

Min(a, b) == IF a < b THEN a ELSE b

\* a mutant of chunk_size
chunk_size_three == 4 - 1

chunk_size == 4

\* a mutant of Paragraphs: only full chunks become paragraphs
RECURSIVE ParagraphsFullOnly(_, _)
ParagraphsFullOnly(cleaned_snippets, i) ==
  IF i + chunk_size > Len(cleaned_snippets) THEN <<>>
  ELSE <<Join(SubSeq(cleaned_snippets, i + 1, i + chunk_size), <<" ">>)>>
       \o ParagraphsFullOnly(cleaned_snippets, i + chunk_size)

\* the loop "for i in range(0, len(cleaned_snippets), chunk_size)" from the
\* 0-based index i on: chunk = cleaned_snippets[i:i + chunk_size]
RECURSIVE Paragraphs(_, _)
Paragraphs(cleaned_snippets, i) ==
  IF i >= Len(cleaned_snippets) THEN <<>>
  ELSE <<Join(SubSeq(cleaned_snippets, i + 1,
                     Min(i + chunk_size, Len(cleaned_snippets))), <<" ">>)>>
       \o Paragraphs(cleaned_snippets, i + chunk_size)

\* Chunked (src/.streamlit/app.py 163-179): clean every snippet, join every
\* 4 of them with a space, join the paragraphs with a blank line
format_original_transcript_chunked(transcript_list) ==
  Join(Paragraphs(CleanedSnippets(transcript_list), 0), <<"\n", "\n">>)

(***************************************************************************)
(* Inputs of the assembler: at most MaxFrags snippets                      *)
(***************************************************************************)
FragTexts ==
  { <<>>, <<" ">>, <<"i">>, <<"h","e","s","\n","\n",".","b">> }

FragSeqs == UNION { [1..k -> [text : FragTexts]] : k \in 0..MaxFrags }

(***************************************************************************)
(* Specification of the assembler: both versions applied to the same       *)
(* snippets, in either order                                               *)
(***************************************************************************)
InitAssembler ==
  /\ fragments \in FragSeqs
  /\ flatOut = <<>>
  /\ chunkOut = <<>>
  /\ asmDone = {}
  /\ IdleNormalizer
  /\ IdleReconstructor
  /\ IdleBasic
  /\ IdleStyled
  /\ IdleSession
  /\ IdleFetch

FormatFlat ==
  /\ "idle" \notin asmDone
  /\ "flat" \notin asmDone
  /\ flatOut' = format_original_transcript(fragments)
  /\ asmDone' = asmDone \cup {"flat"}
  /\ UNCHANGED <<fragments, chunkOut, normVars, recVars, basicVars, styVars, sessVars, fetchVars>>

FormatChunked ==
  /\ "idle" \notin asmDone
  /\ "chunked" \notin asmDone
  /\ chunkOut' = format_original_transcript_chunked(fragments)
  /\ asmDone' = asmDone \cup {"chunked"}
  /\ UNCHANGED <<fragments, flatOut, normVars, recVars, basicVars, styVars, sessVars, fetchVars>>

NextAssembler == FormatFlat \/ FormatChunked

SpecAssembler == InitAssembler /\ [][NextAssembler]_vars

(***************************************************************************)
(* Markup Reconstructor: clean_and_fix_text (src/app.py 335-350, the same  *)
(* statements as src/fancypdf.py 6-47)                                     *)
(***************************************************************************)
BOM == "BOM"

BULLET == "BULLET"

ARTIFACT == <<"T","r","a","n","s","c","r","i","b","r","r">>

LEARNINGS ==
  <<"L","e","a","r","n","i","n","g","s"," ","a","n","d"," ",
    "A","c","t","i","o","n","a","b","l","e"," ",
    "T","a","k","e","a","w","a","y","s">>

H2 == <<"#","#"," ">>

H3 == <<"#","#","#"," ">>

\* ^ with re.MULTILINE: index j starts a line
AtLineStart(s, j) == j = 1 \/ (j > 1 /\ j - 1 <= Len(s) /\ s[j - 1] = "\n")

\* $ with re.MULTILINE: index j is just after the last character of a line
AtLineEnd(s, j) == j = Len(s) + 1 \/ (j >= 1 /\ j <= Len(s) /\ s[j] = "\n")

\* where .*?$ stops: the index after the last character of the line of j
LineEnd(s, j) == MinOf({ k \in j..Len(s) : s[k] = "\n" } \cup {Len(s) + 1})

\* the index after the run of digits that starts at j (\d+ from j)
RECURSIVE DigitsEnd(_, _)
DigitsEnd(s, j) ==
  IF j > Len(s) \/ ~IsDigit(s[j]) THEN j ELSE DigitsEnd(s, j + 1)

\* the index after the run of newlines that starts at j
RECURSIVE NewlinesEnd(_, _)
NewlinesEnd(s, j) ==
  IF j > Len(s) \/ s[j] # "\n" THEN j ELSE NewlinesEnd(s, j + 1)

\* s[j] exists and is c
CharAt(s, j, c) == j >= 1 /\ j <= Len(s) /\ s[j] = c

\* \d+ followed by c matches at j
DigitsThen(s, j, c) ==
  /\ j >= 1 /\ j <= Len(s) /\ IsDigit(s[j])
  /\ CharAt(s, DigitsEnd(s, j), c)

\* text_input.replace('\\ufeff', '')
RemoveBom(s) == SelectSeq(s, LAMBDA c : c # BOM)

\* re.sub(r'\s*Transcribrr\s*', '\n', s)
SubArtifact(s) ==
  ReSub(LAMBDA t, j : LitAt(t, SkipWs(t, j), ARTIFACT),
        LAMBDA t, j : SkipWs(t, SkipWs(t, j) + Len(ARTIFACT)),
        LAMBDA t, j : <<"\n">>,
        s)

\* a mutant of PartMatch: ^ without re.MULTILINE
PartMatchFirstLineOnly(s, j) ==
  /\ j = 1
  /\ LitAt(s, j, <<"P","a","r","t"," ">>)
  /\ DigitsThen(s, j + 5, ":")

\* ^(Part \d+:.*?)$ matches at j
PartMatch(s, j) ==
  /\ AtLineStart(s, j)
  /\ LitAt(s, j, <<"P","a","r","t"," ">>)
  /\ DigitsThen(s, j + 5, ":")

\* re.sub(r'^(Part \d+:.*?)$', r'### \1', s, flags=re.MULTILINE)
SubPart(s) ==
  ReSub(PartMatch,
        LAMBDA t, j : LineEnd(t, j),
        LAMBDA t, j : H3 \o SubSeq(t, j, LineEnd(t, j) - 1),
        s)

\* ^(Learnings and Actionable Takeaways)$ matches at j
LearningsMatch(s, j) ==
  /\ AtLineStart(s, j)
  /\ LitAt(s, j, LEARNINGS)
  /\ AtLineEnd(s, j + Len(LEARNINGS))

\* a mutant of LearningsRepl: the rule line and the header are set apart
LearningsReplApart(s, j) ==
  <<"\n","-","-","-","\n","\n">> \o H2 \o LEARNINGS

\* r'\n---\n## \1'
LearningsRepl(s, j) == <<"\n","-","-","-","\n">> \o H2 \o LEARNINGS

\* re.sub(r'^(Learnings and Actionable Takeaways)$', r'\n---\n## \1', s,
\*        flags=re.MULTILINE)
SubLearnings(s) ==
  ReSub(LearningsMatch,
        LAMBDA t, j : j + Len(LEARNINGS),
        LearningsRepl,
        s)

\* a mutant of LetterMatch: a space is required after the period
LetterMatchNeedsSpace(s, j) ==
  /\ AtLineStart(s, j)
  /\ j + 2 <= Len(s)
  /\ IsUpper(s[j])
  /\ s[j + 1] = "."
  /\ s[j + 2] = " "

\* ^([A-Z]\..*?)$ matches at j
LetterMatch(s, j) ==
  /\ AtLineStart(s, j)
  /\ j + 1 <= Len(s)
  /\ IsUpper(s[j])
  /\ s[j + 1] = "."

\* re.sub(r'^([A-Z]\..*?)$', r'### \1', s, flags=re.MULTILINE)
SubLetter(s) ==
  ReSub(LetterMatch,
        LAMBDA t, j : LineEnd(t, j),
        LAMBDA t, j : H3 \o SubSeq(t, j, LineEnd(t, j) - 1),
        s)

\* s.replace(BULLET, '*')
ReplaceBullet(s) == [k \in 1..Len(s) |-> IF s[k] = BULLET THEN "*" ELSE s[k]]

\* re.sub(r'( \d+\. )', r'\n\1', s)
BreakNumbered(s) ==
  ReSub(LAMBDA t, j : /\ t[j] = " "
                      /\ DigitsThen(t, j + 1, ".")
                      /\ CharAt(t, DigitsEnd(t, j + 1) + 1, " "),
        LAMBDA t, j : DigitsEnd(t, j + 1) + 2,
        LAMBDA t, j : <<"\n">> \o SubSeq(t, j, DigitsEnd(t, j + 1) + 1),
        s)

\* re.sub(r'( \* )', r'\n\1', s)
BreakStarred(s) ==
  ReSub(LAMBDA t, j : LitAt(t, j, <<" ","*"," ">>),
        LAMBDA t, j : j + 3,
        LAMBDA t, j : <<"\n"," ","*"," ">>,
        s)

\* a mutant of JammedRepl: group 1 is left out of the replacement
JammedReplDropsGroup(s, j) ==
  <<"\n">> \o SubSeq(s, j + 2, DigitsEnd(s, j + 2))

\* r'\1\n\2' for the match of (\S) (\d+\.) at j
JammedRepl(s, j) ==
  <<s[j], "\n">> \o SubSeq(s, j + 2, DigitsEnd(s, j + 2))

\* re.sub(r'(\S) (\d+\.)', r'\1\n\2', s)
BreakJammed(s) ==
  ReSub(LAMBDA t, j : /\ ~IsSpace(t[j])
                      /\ CharAt(t, j + 1, " ")
                      /\ DigitsThen(t, j + 2, "."),
        LAMBDA t, j : DigitsEnd(t, j + 2) + 1,
        JammedRepl,
        s)

\* re.sub(r'\n\n+', '\n\n', s)
CollapseBlankLines(s) ==
  ReSub(LAMBDA t, j : t[j] = "\n" /\ CharAt(t, j + 1, "\n"),
        LAMBDA t, j : NewlinesEnd(t, j),
        LAMBDA t, j : <<"\n","\n">>,
        s)

clean_and_fix_text(text_input) ==
  LET c1  == RemoveBom(text_input)
      c2  == Strip(SubArtifact(c1))
      c3  == SubPart(c2)
      c4  == SubLearnings(c3)
      c5  == SubLetter(c4)
      c6  == ReplaceBullet(c5)
      c7  == BreakNumbered(c6)
      c8  == BreakStarred(c7)
      c9  == BreakJammed(c8)
      c10 == CollapseBlankLines(c9)
  IN  Strip(c10)

(***************************************************************************)
(* Inputs of the reconstructor: concatenations of at most MaxRecPieces     *)
(* pieces, the structural cues of the ten rules and plain text             *)
(***************************************************************************)
PartExample ==
  <<"P","a","r","t"," ","1",":"," ","I","n","t","r","o","\n",
    "s","o","m","e"," ","t","e","x","t">>

\* U+0663 (ARABIC-INDIC DIGIT THREE) is a digit outside ASCII
RecPieces ==
  { <<" ">>, <<"\n">>, <<NBSP>>, <<"x">>, <<BOM>>, <<BULLET>>, <<"*">>, <<"2",".">>,
    <<"U+0663",".">>, <<" ","*"," ">>, <<" ","1","2","."," ">>,
    <<"A",".">>, <<"P","a","r","t"," ","1",":">>,
    ARTIFACT, LEARNINGS, PartExample }

RecInputs == { Flatten(ps) : ps \in PieceSeqs(RecPieces, MaxRecPieces) }

(***************************************************************************)
(* Specification of the reconstructor                                      *)
(***************************************************************************)
InitReconstructor ==
  /\ recIn \in RecInputs
  /\ recOut = <<>>
  /\ recOut2 = <<>>
  /\ recPc = "start"
  /\ IdleNormalizer
  /\ IdleAssembler
  /\ IdleBasic
  /\ IdleStyled
  /\ IdleSession
  /\ IdleFetch

CleanAndFix ==
  /\ recPc = "start"
  /\ recOut' = clean_and_fix_text(recIn)
  /\ recPc' = "done"
  /\ UNCHANGED <<recIn, recOut2, normVars, asmVars, basicVars, styVars, sessVars, fetchVars>>

\* the function applied to a text it has returned
CleanAndFixAgain ==
  /\ recPc = "done"
  /\ recOut2' = clean_and_fix_text(recOut)
  /\ recPc' = "again"
  /\ UNCHANGED <<recIn, recOut, normVars, asmVars, basicVars, styVars, sessVars, fetchVars>>

NextReconstructor == CleanAndFix \/ CleanAndFixAgain

SpecReconstructor == InitReconstructor /\ [][NextReconstructor]_vars

(***************************************************************************)
(* Document Renderer (Basic): class PDF and create_pdf_from_transcripts    *)
(* (src/app.py 193-235).  A text is known here by what the three library   *)
(* calls made on it do: md_fpdf.render, write_html and multi_cell each     *)
(* return (TRUE) or raise (FALSE).  A document is its pages; a page is the *)
(* sequence of the blocks written on it.                                   *)
(***************************************************************************)
\* PDF.header, which add_page calls on the new page
header == <<"header", "Transcribrr">>

\* pdf.add_page()
add_page(pdf) == Append(pdf, <<header>>)

\* a block appended to the last page
WriteBlock(pdf, block) ==
  [pdf EXCEPT ![Len(pdf)] = Append(pdf[Len(pdf)], block)]

\* PDF.chapter_title
chapter_title(pdf, title) == WriteBlock(pdf, <<"title", title>>)

\* PDF.chapter_body: the rendering to HTML is outside the try statement, the
\* plain-text fallback is inside its except clause
chapter_body(pdf, text) ==
  IF ~text.render THEN [pdf |-> pdf, raised |-> "md_fpdf.render"]
  ELSE IF text.write_html
       THEN [pdf |-> WriteBlock(pdf, <<"html", text>>), raised |-> "no"]
       ELSE IF text.multi_cell
            THEN [pdf |-> WriteBlock(pdf, <<"plain", text>>), raised |-> "no"]
            ELSE [pdf |-> pdf, raised |-> "multi_cell"]

\* the loop "for title, text in processed_transcripts" from section k on
RECURSIVE RenderSectionsFrom(_, _, _)
RenderSectionsFrom(pdf, processed_transcripts, k) ==
  IF k > Len(processed_transcripts) THEN [kind |-> "bytes", pages |-> pdf]
  ELSE LET titled == chapter_title(add_page(pdf), processed_transcripts[k].title)
           body   == chapter_body(titled, processed_transcripts[k].text)
       IN  IF body.raised # "no"
           THEN [kind |-> "raised", by |-> body.raised, section |-> k]
           ELSE RenderSectionsFrom(body.pdf, processed_transcripts, k + 1)

\* what pdf.add_font does for the two font files: both are added, or a call
\* raises RuntimeError, or a call raises an exception of another type
FontOutcomes == {"added", "RuntimeError", "Exception"}

\* create_pdf_from_transcripts: st.error and st.stop() when add_font raises
\* RuntimeError, the only type the except clause names; any other exception
\* of add_font leaves the function before the first section (section 0);
\* else the bytes of the document, unless a call of a section raised
create_pdf_from_transcripts(fonts, processed_transcripts) ==
  CASE fonts = "RuntimeError" -> [kind |-> "stopped"]
    [] fonts = "Exception" -> [kind |-> "raised", by |-> "add_font", section |-> 0]
    [] OTHER -> RenderSectionsFrom(<<>>, processed_transcripts, 1)

(***************************************************************************)
(* Inputs of the basic renderer: at most MaxSections sections              *)
(***************************************************************************)
Titles == {"Video: a", "Video: b"}

Texts == [render : BOOLEAN, write_html : BOOLEAN, multi_cell : BOOLEAN]

SectionSeqs ==
  UNION { [1..k -> [title : Titles, text : Texts]] : k \in 0..MaxSections }

(***************************************************************************)
(* Specification of the basic renderer                                     *)
(***************************************************************************)
InitBasic ==
  /\ bFonts \in FontOutcomes
  /\ bSections \in SectionSeqs
  /\ bResult = [kind |-> "none"]
  /\ bPc = "start"
  /\ IdleNormalizer
  /\ IdleAssembler
  /\ IdleReconstructor
  /\ IdleStyled
  /\ IdleSession
  /\ IdleFetch

CreatePdf ==
  /\ bPc = "start"
  /\ bResult' = create_pdf_from_transcripts(bFonts, bSections)
  /\ bPc' = "done"
  /\ UNCHANGED <<bFonts, bSections, normVars, asmVars, recVars, styVars, sessVars, fetchVars>>

NextBasic == CreatePdf

SpecBasic == InitBasic /\ [][NextBasic]_vars

(***************************************************************************)
(* The session: the script of src/app.py run once per user interaction.    *)
(* Video ids are the numbers 1..MaxVideos; texts are terms that record how *)
(* they were made (the functions making them are modelled above).          *)
(***************************************************************************)
VideoIds == 1..MaxVideos

\* one element of video_data: {'video_id': ..., 'title': ...}
Video(k) == [video_id |-> k, title |-> <<"title", k>>]

\* the lists of videos a channel can have: no video twice
VideoLists ==
  { l \in UNION { [1..n -> VideoIds] : n \in 0..MaxVideos } :
      \A i, j \in 1..Len(l) : l[i] = l[j] => i = j }

\* what st.session_state.video_list can hold after a lookup
VideoData(l) == [k \in 1..Len(l) |-> Video(l[k])]

\* a call of st.error, st.warning, st.success or st.text: the level, the
\* fixed part of the text and the value formatted into it
Msg(level, text, arg) == <<level, text, arg>>

NoArg == <<>>

\* what yt_api.fetch(video_id) does in one call
FetchOutcomes == {"ok", "TranscriptsDisabled", "NoTranscriptFound", "Exception"}

\* transcripts[video_id] = {...}: a dict keeps the place of a key it has
RECURSIVE DictSetFrom(_, _, _, _)
DictSetFrom(d, key, value, k) ==
  IF k > Len(d) THEN Append(d, [key |-> key, value |-> value])
  ELSE IF d[k].key = key THEN [d EXCEPT ![k] = [key |-> key, value |-> value]]
       ELSE DictSetFrom(d, key, value, k + 1)

\* a dict that would put a new key before the keys it has
DictSetInFront(d, key, value) == <<[key |-> key, value |-> value]>> \o d

DictSet(d, key, value) == DictSetFrom(d, key, value, 1)

DictKeys(d) == { d[k].key : k \in 1..Len(d) }

\* one turn of the loop of get_transcripts_for_videos: the blocking call
\* yt_api.fetch, the assignment, the message; time.sleep(1) ends the turn
FetchOne(acc, pair, outcome) ==
  LET video_id == pair[1]
      video_title == pair[2]
  IN  [ transcripts |->
          IF outcome = "ok"
          THEN DictSet(acc.transcripts, video_id,
                       [title |-> video_title,
                        transcript_list |-> <<"transcript", video_id>>])
          ELSE acc.transcripts,
        messages |->
          Append(acc.messages,
            CASE outcome = "ok" ->
                   Msg("success", "Got transcript for: ", video_title)
              [] outcome = "TranscriptsDisabled" ->
                   Msg("warning", "Transcripts are disabled for: ", video_title)
              [] outcome = "NoTranscriptFound" ->
                   Msg("warning", "No transcript found for: ", video_title)
              [] OTHER ->
                   Msg("error", "Error fetching transcript for ", video_title)),
        fetched |-> Append(acc.fetched, video_id) ]

\* a turn of the loop in which the script is stopped at the call that would
\* display the message (lines 110, 112, 114, 116): the fetch of the turn was
\* made and, when it succeeded, the dict has its transcript (lines 105-109);
\* the message is not displayed.  The exception that stops the script is no
\* Exception, so the clause of line 115 does not catch it
FetchOneStopped(acc, pair, outcome) ==
  [FetchOne(acc, pair, outcome) EXCEPT !.messages = acc.messages]

\* "for video_id, video_title in video_ids_to_fetch": the pair of the next
\* turn, when acc is what the turns made so far have built
NextPair(video_ids_to_fetch, acc) == video_ids_to_fetch[Len(acc.fetched) + 1]

\* the loop as it would be if a failing fetch ended it
LoopHasNextUntilFailure(video_ids_to_fetch, acc) ==
  /\ Len(acc.fetched) < Len(video_ids_to_fetch)
  /\ acc.messages # <<>> => acc.messages[Len(acc.messages)][1] = "success"

\* the loop has a turn left: every pair of the list gets one, whatever the
\* fetches before it did
LoopHasNext(video_ids_to_fetch, acc) ==
  Len(acc.fetched) < Len(video_ids_to_fetch)

\* "transcripts = {}" and nothing displayed yet
NoTranscripts == [transcripts |-> <<>>, messages |-> <<>>, fetched |-> <<>>]

\* the turns left of the loop, from what the turns made so far have built
RECURSIVE FetchFrom(_, _, _)
FetchFrom(acc, video_ids_to_fetch, outcomes) ==
  IF ~LoopHasNext(video_ids_to_fetch, acc) THEN acc
  ELSE FetchFrom(FetchOne(acc, NextPair(video_ids_to_fetch, acc),
                          outcomes[Len(acc.fetched) + 1]),
                 video_ids_to_fetch, outcomes)

\* a whole call of get_transcripts_for_videos that is not stopped;
\* outcomes[k] is what the fetch of the k-th video does
get_transcripts_for_videos(video_ids_to_fetch, outcomes) ==
  FetchFrom(NoTranscripts, video_ids_to_fetch, outcomes)

\* a function decorated with st.cache_data: the body runs when the key is
\* new, and what it returned and displayed is stored when it returns and
\* replayed when the key is known
CacheHas(cache, key) == \E k \in 1..Len(cache) : cache[k].key = key

CacheGet(cache, key) ==
  cache[CHOOSE k \in 1..Len(cache) : cache[k].key = key].value

CachePut(cache, key, value) == Append(cache, [key |-> key, value |-> value])

(***************************************************************************)
(* The channel lookup                                                      *)
(***************************************************************************)
ChannelNames == {"", "c1", "c2"}

\* what the YouTube service does in one lookup: no channel of that name, a
\* failing call, or the uploads of the channel
LookupAnswers ==
  {[kind |-> "not found"], [kind |-> "exception"]}
    \cup { [kind |-> "items", videos |-> l] : l \in VideoLists }

\* the body of get_channel_videos: what it returns and what it displays
get_channel_videos(channel_name, answer) ==
  CASE answer.kind = "not found" ->
         [value |-> <<>>,
          messages |-> << Msg("error", "Channel not found", channel_name) >>]
    [] answer.kind = "exception" ->
         [value |-> <<>>,
          messages |-> << Msg("error", "Error accessing YouTube API: ", NoArg) >>]
    [] OTHER ->
         [value |-> VideoData(answer.videos), messages |-> <<>>]

\* the arguments st.cache_data keys a call of get_channel_videos by: the only
\* call passes YOUTUBE_KEY and the name, max_results keeps its default
YOUTUBE_KEY == "YOUTUBE_KEY"

DEFAULT_MAX_RESULTS == 25

LookupKey(channel_name) == <<YOUTUBE_KEY, channel_name, DEFAULT_MAX_RESULTS>>

\* "if st.session_state.video_list:" and "if st.session_state.final_pdf_data:"
FormShown(videos) == videos # <<>>

DownloadShown(pdf) == pdf.kind # "None"

\* the memo as it would be if an empty result were not taken from it
LookupHitNonEmpty(cache, channel_name) ==
  /\ CacheHas(cache, LookupKey(channel_name))
  /\ CacheGet(cache, LookupKey(channel_name)).value # <<>>

\* st.cache_data has a result for the arguments of the call
LookupHit(cache, channel_name) == CacheHas(cache, LookupKey(channel_name))

\* the handler of the Search Channel button from the test of the name on,
\* then the rest of the script; answer is what the lookup service does when
\* it is called
search_channel(cache, channel_name, answer) ==
  IF channel_name = ""
  THEN [video_list |-> <<>>, cache |-> cache, invoked |-> FALSE,
        messages |-> << Msg("warning", "Please enter a channel name.", NoArg) >>]
  ELSE LET hit == LookupHit(cache, channel_name)
           r   == IF hit THEN CacheGet(cache, LookupKey(channel_name))
                  ELSE get_channel_videos(channel_name, answer)
       IN  [video_list |-> r.value,
            cache |-> IF hit THEN cache ELSE CachePut(cache, LookupKey(channel_name), r),
            invoked |-> ~hit,
            messages |->
              r.messages \o
                (IF r.value = <<>>
                 THEN << Msg("warning", "No videos found. Try a different channel name.", NoArg) >>
                 ELSE <<>>)]

\* the call of line 430 when an event of the page has arrived while the
\* lookup was waited for: the script is stopped at the next call of an st
\* function it reaches.  When the lookup fails that is the st.error of
\* get_channel_videos (lines 67, 93): the function does not return and
\* nothing is stored.  When the service gives the uploads the function
\* returns and its result is stored, and the script is stopped where the
\* spinner of the decorator (show_spinner, line 51) is closed: the
\* assignment of line 430 is not made and the list stays as line 427 left it
search_channel_stopped(cache, channel_name, answer) ==
  IF answer.kind # "items"
  THEN [video_list |-> <<>>, cache |-> cache]
  ELSE [video_list |-> <<>>,
        cache |-> CachePut(cache, LookupKey(channel_name),
                           get_channel_videos(channel_name, answer))]

(***************************************************************************)
(* The Generate handler                                                    *)
(***************************************************************************)
FormatOptions ==
  {"Original Transcript", "Brainrot Transcript (Gen Z)",
   "AI Explainer (Detailed Notes)"}

BRAINROT_PROMPT == "BRAINROT_PROMPT"

EXPLAINER_PROMPT == "EXPLAINER_PROMPT"

\* the loop building selected_videos: the checked videos, in list order
RECURSIVE SelectedFrom(_, _, _)
SelectedFrom(videos, video_selections, k) ==
  IF k > Len(videos) THEN <<>>
  ELSE (IF videos[k].video_id \in video_selections
        THEN << <<videos[k].video_id, videos[k].title>> >>
        ELSE <<>>)
       \o SelectedFrom(videos, video_selections, k + 1)

selected_videos(videos, video_selections) ==
  SelectedFrom(videos, video_selections, 1)

\* run_gemini_model: the text of the response, or, when a call raises, the
\* string "Error calling Gemini: ..." returned in its place
run_gemini_model(transcript_text, system_prompt, answer) ==
  IF answer = "raise"
  THEN <<"Error calling Gemini: ", system_prompt, transcript_text>>
  ELSE <<"response.text", system_prompt, transcript_text>>

ModelAnswers == {"text", "raise"}

\* the call of st.text that opens a turn of the loop over
\* raw_transcripts.items() with a rewriting format (lines 489, 493); a turn
\* with the original format displays nothing
RunningMessage(entry, format_option) ==
  CASE format_option = "Original Transcript" -> <<>>
    [] format_option = "Brainrot Transcript (Gen Z)" ->
         << Msg("text", "Running 'Brainrot' model on: ", entry.value.title) >>
    [] OTHER ->
         << Msg("text", "Running 'AI Explainer' model on: ", entry.value.title) >>

\* the pair a turn appends: (title, final_text); answer is what the blocking
\* call of the model does in a turn with a rewriting format
Processed(entry, format_option, answer) ==
  LET data == entry.value
      original_formatted_text ==
        <<"format_original_transcript", data.transcript_list>>
      title == <<"Video: ", data.title>>
      final_text ==
        CASE format_option = "Original Transcript" -> original_formatted_text
          [] format_option = "Brainrot Transcript (Gen Z)" ->
               run_gemini_model(original_formatted_text, BRAINROT_PROMPT, answer)
          [] OTHER ->
               run_gemini_model(original_formatted_text, EXPLAINER_PROMPT, answer)
  IN  [title |-> title, text |-> [content |-> final_text]]

\* one turn of that loop from the call of the model on (lines 490, 494) to
\* the append of line 496; the message of the turn is displayed before
ProcessOne(acc, entry, format_option, answer) ==
  [ processed_transcripts |->
      Append(acc.processed_transcripts, Processed(entry, format_option, answer)),
    model_calls |->
      acc.model_calls \o
        (IF format_option = "Original Transcript" THEN <<>>
         ELSE << [video_id |-> entry.key, answer |-> answer] >>) ]

\* the processed texts as the layout calls of FPDF take them in this run
LaidOut(processed_transcripts, layout) ==
  [k \in 1..Len(processed_transcripts) |->
     [title |-> processed_transcripts[k].title,
      text |-> [render |-> layout.render,
                write_html |-> layout.write_html,
                multi_cell |-> layout.multi_cell,
                content |-> processed_transcripts[k].text.content]]]

\* what create_pdf_from_transcripts displays: the error of the except clause
\* of add_font, or the warning of each section that fell back to plain text
\* before a call raised
RECURSIVE BasicWarningsFrom(_, _)
BasicWarningsFrom(processed_transcripts, k) ==
  IF k > Len(processed_transcripts) THEN <<>>
  ELSE LET text == processed_transcripts[k].text
       IN  IF ~text.render THEN <<>>
           ELSE IF text.write_html
                THEN BasicWarningsFrom(processed_transcripts, k + 1)
                ELSE << Msg("warning", "FPDF HTML rendering error, falling back to basic text: ", NoArg) >>
                       \o (IF text.multi_cell
                           THEN BasicWarningsFrom(processed_transcripts, k + 1)
                           ELSE <<>>)

basic_messages(fonts, processed_transcripts) ==
  CASE fonts = "RuntimeError" ->
         << Msg("error", "DejaVu fonts not found!", NoArg) >>
    [] fonts = "Exception" -> <<>>
    [] OTHER -> BasicWarningsFrom(processed_transcripts, 1)

\* the body of the loop of create_fancy_pdf_from_transcripts for one pair:
\* the div of the section, made of the cleaned text of title and body
video_section(pair, k) ==
  LET cleaned_text == <<"clean_and_fix_text", pair.title, "\n", pair.text.content>>
  IN  [title_line |-> <<"title_line", cleaned_text>>,
       main_content_html |-> <<"markdown", <<"main_content_md", cleaned_text>>>>,
       of |-> pair,
       page_break_before |-> k > 1]

\* create_fancy_pdf_from_transcripts: markdown.markdown is called in the
\* loop, outside the try statement around the writing of the PDF
create_fancy_pdf_from_transcripts(processed_transcripts, markdown_ok, write_pdf_ok) ==
  IF processed_transcripts # <<>> /\ ~markdown_ok
  THEN [kind |-> "raised", by |-> "markdown.markdown", section |-> 1,
        messages |-> <<>>]
  ELSE IF ~write_pdf_ok
       THEN [kind |-> "None",
             messages |->
               << Msg("error", "Error generating 'Fancy' PDF with WeasyPrint: ", NoArg),
                  Msg("error", "This can happen if WeasyPrint dependencies are not installed.", NoArg) >>]
       ELSE [kind |-> "bytes", renderer |-> "WeasyPrint",
             sections |->
               [k \in 1..Len(processed_transcripts) |->
                  video_section(processed_transcripts[k], k)],
             messages |-> <<>>]

\* how the environment of one Generate run behaves: the font files, the
\* layout calls of FPDF, markdown.markdown and the writing of the PDF
Layouts ==
  { [render |-> TRUE, write_html |-> TRUE, multi_cell |-> TRUE],
    [render |-> TRUE, write_html |-> FALSE, multi_cell |-> TRUE],
    [render |-> TRUE, write_html |-> FALSE, multi_cell |-> FALSE],
    [render |-> FALSE, write_html |-> TRUE, multi_cell |-> TRUE] }

BasicEnvs ==
  [fonts : {"added"}, layout : Layouts, markdown : {TRUE}, write_pdf : {TRUE}]
    \cup [fonts : {"RuntimeError", "Exception"},
          layout : {[render |-> TRUE, write_html |-> TRUE, multi_cell |-> TRUE]},
          markdown : {TRUE}, write_pdf : {TRUE}]

StyledEnvs ==
  [fonts : {"added"},
   layout : {[render |-> TRUE, write_html |-> TRUE, multi_cell |-> TRUE]},
   markdown : {TRUE}, write_pdf : BOOLEAN]
    \cup [fonts : {"added"},
          layout : {[render |-> TRUE, write_html |-> TRUE, multi_cell |-> TRUE]},
          markdown : {FALSE}, write_pdf : {TRUE}]

RenderEnvs(format_option) ==
  IF format_option = "AI Explainer (Detailed Notes)" THEN StyledEnvs
  ELSE BasicEnvs

\* the choice of the renderer as it would be if every rewritten text were
\* given to the styled one
UsesStyledForRewrites(format_option) == format_option # "Original Transcript"

\* "if format_option == "AI Explainer (Detailed Notes)":" of step 4
UsesStyled(format_option) == format_option = "AI Explainer (Detailed Notes)"

\* "st.text("Generating ...")" of lines 504 and 507, displayed before the
\* renderer is called
GeneratingMessage(format_option) ==
  IF UsesStyled(format_option)
  THEN Msg("text", "Generating 'Fancy' PDF with WeasyPrint...", NoArg)
  ELSE Msg("text", "Generating 'Standard' PDF with FPDF...", NoArg)

\* the renderer lines 503-508 call
RendererOf(format_option) ==
  IF UsesStyled(format_option) THEN "WeasyPrint" ELSE "FPDF"

\* the call of the renderer (lines 505, 508): what it returns, or how it
\* ends when it does not return, and what it displays
render_pdf(processed_transcripts, format_option, env) ==
  LET fancy == create_fancy_pdf_from_transcripts(
                 processed_transcripts, env.markdown, env.write_pdf)
  IN  IF UsesStyled(format_option)
      THEN [pdf_data |->
              IF fancy.kind = "bytes"
              THEN [kind |-> "bytes", renderer |-> "WeasyPrint",
                    sections |-> fancy.sections]
              ELSE IF fancy.kind = "None" THEN [kind |-> "None"]
              ELSE [kind |-> "raised", by |-> fancy.by, section |-> fancy.section],
            messages |-> fancy.messages]
      ELSE [pdf_data |-> create_pdf_from_transcripts(env.fonts, processed_transcripts),
            messages |-> basic_messages(env.fonts, processed_transcripts)]

\* step 4 of the handler from the call of the renderer on, and the rest of
\* the script: the session keeps pdf_data only when there is one (lines
\* 511-515), and a renderer that does not return ends the run
generate_pdf(pdf, processed_transcripts, format_option, env) ==
  LET r == render_pdf(processed_transcripts, format_option, env)
  IN  CASE r.pdf_data.kind = "bytes" ->
             [final_pdf_data |-> r.pdf_data,
              aborted |-> FALSE, pdf_data |-> r.pdf_data, stored |-> TRUE,
              messages |->
                Append(r.messages,
                       Msg("success", "All transcripts processed and PDF is ready!", NoArg))]
        [] r.pdf_data.kind = "None" ->
             [final_pdf_data |-> pdf,
              aborted |-> FALSE, pdf_data |-> r.pdf_data, stored |-> FALSE,
              messages |->
                Append(r.messages, Msg("error", "Could not generate PDF data.", NoArg))]
        [] OTHER ->
             [final_pdf_data |-> pdf,
              aborted |-> TRUE, pdf_data |-> r.pdf_data, stored |-> FALSE,
              messages |-> r.messages]

\* the calls of st functions the script can be stopped at once the renderer
\* is called, by the number of messages the renderer has displayed before:
\* each call of the renderer (lines 211, 227, 391, 392); when the renderer
\* returns, the st.success or st.error of lines 513 and 515 that follows its
\* last message; when the renderer raises, the closing of the spinner of
\* line 470, which the exception reaches on its way out of the with block.
\* After the st.error of line 227 comes the st.stop() of line 228
RenderStopPoints(processed_transcripts, format_option, env) ==
  LET r == render_pdf(processed_transcripts, format_option, env)
  IN  { shown \in 0..Len(r.messages) :
          shown < Len(r.messages) \/ r.pdf_data.kind \in {"bytes", "None", "raised"} }

\* step 4 when an event of the page arrives while the renderer works, after
\* the renderer has displayed shown messages: the script is stopped at the
\* next call of an st function.  In the renderer the function does not
\* return and pdf_data keeps the None of line 500, as it does when the
\* renderer raises and the script is stopped at the closing of the spinner;
\* after the renderer has returned a document line 512 has stored it when
\* the script is stopped at st.success
generate_pdf_stopped(pdf, processed_transcripts, format_option, env, shown) ==
  LET r == render_pdf(processed_transcripts, format_option, env)
      returned == shown = Len(r.messages) /\ r.pdf_data.kind \in {"bytes", "None"}
      stored == returned /\ r.pdf_data.kind = "bytes"
  IN  [final_pdf_data |-> IF stored THEN r.pdf_data ELSE pdf,
       pdf_data |-> IF returned THEN r.pdf_data ELSE [kind |-> "None"],
       stored |-> stored,
       messages |-> SubSeq(r.messages, 1, shown)]

\* the handler as it would be without the check of the selection
NothingSelectedIgnored(selected) == FALSE

\* "if not selected_videos:"
NothingSelected(selected) == selected = <<>>

(***************************************************************************)
(* Specification of the session: at most MaxRuns runs of the script.  A   *)
(* run is not one step: it waits in the lookup of the channel, in every    *)
(* turn of the loop of get_transcripts_for_videos (the fetch and           *)
(* time.sleep(1)), in every call of the model and in the renderer.  An     *)
(* event of the page that arrives during a wait stops the script at the    *)
(* next call of an st function it reaches: what the script does between    *)
(* the wait and that call is done, the call and what follows it is not.    *)
(* The closing of the spinner of a function decorated with st.cache_data   *)
(* is such a call: it comes when the function has returned and its result  *)
(* is stored, before the caller assigns it.                                *)
(* The next run starts when the script has ended or is stopped.            *)
(***************************************************************************)
InitSession ==
  /\ video_list = <<>>
  /\ final_pdf_data = [kind |-> "None"]
  /\ channel_cache = <<>>
  /\ transcript_cache = <<>>
  /\ run = [kind |-> "start", n |-> 0, pc |-> "done", aborted |-> FALSE,
            messages |-> <<>>,
            form_shown |-> FALSE, download_shown |-> FALSE]
  /\ other_runs = 0
  /\ IdleNormalizer
  /\ IdleAssembler
  /\ IdleReconstructor
  /\ IdleBasic
  /\ IdleStyled
  /\ IdleFetch

\* what the turns of the fetch loop of the run have built so far
FetchedSoFar(r) ==
  [transcripts |-> r.transcripts, messages |-> r.messages, fetched |-> r.fetched]

\* the next run can start: the script has ended or is stopped
CanStartRun == run.n + other_runs < MaxRuns /\ run.pc \in {"done", "stopped"}

\* a run of the script with no button pressed, as after any other widget event
Rerun ==
  /\ CanStartRun
  /\ run' = [kind |-> "rerun", n |-> run.n + 1, pc |-> "done",
             aborted |-> FALSE, messages |-> <<>>,
             form_shown |-> FormShown(video_list),
             download_shown |-> DownloadShown(final_pdf_data)]
  /\ UNCHANGED <<video_list, final_pdf_data, channel_cache, transcript_cache, other_runs>>
  /\ UNCHANGED <<normVars, asmVars, recVars, basicVars, styVars, fetchVars>>

\* the handler as it would be without line 428
ClearedPdfKept == final_pdf_data

\* "st.session_state.final_pdf_data = None # Clear old PDF"
ClearedPdf == [kind |-> "None"]

\* a run of the script with the Search Channel button pressed, up to the
\* call of the lookup service: lines 427-428, and the whole run when the
\* name is empty or the result of the lookup is in the memo
SearchChannel ==
  /\ CanStartRun
  /\ \E channel_name \in ChannelNames :
       IF channel_name = "" \/ LookupHit(channel_cache, channel_name)
       THEN \E r \in { search_channel(channel_cache, channel_name, [kind |-> "none"]) } :
              /\ video_list' = r.video_list
              /\ run' = [kind |-> "search", n |-> run.n + 1, pc |-> "done",
                         aborted |-> FALSE,
                         channel_name |-> channel_name,
                         lookup_invoked |-> FALSE,
                         answer |-> [kind |-> "none"],
                         messages |-> r.messages,
                         form_shown |-> FormShown(r.video_list),
                         download_shown |-> DownloadShown(ClearedPdf)]
       ELSE /\ video_list' = <<>>
            /\ run' = [kind |-> "search", n |-> run.n + 1, pc |-> "lookup",
                       aborted |-> FALSE,
                       channel_name |-> channel_name,
                       lookup_invoked |-> TRUE,
                       answer |-> [kind |-> "none"],
                       messages |-> <<>>,
                       form_shown |-> FALSE,
                       download_shown |-> FALSE]
  /\ final_pdf_data' = ClearedPdf
  /\ UNCHANGED <<channel_cache, transcript_cache, other_runs>>
  /\ UNCHANGED <<normVars, asmVars, recVars, basicVars, styVars, fetchVars>>

\* the lookup service answers: get_channel_videos returns, its result is
\* stored in the memo, and the rest of the script runs
SearchLookup ==
  /\ run.kind = "search"
  /\ run.pc = "lookup"
  /\ \E answer \in LookupAnswers :
       \E r \in { search_channel(channel_cache, run.channel_name, answer) } :
         /\ video_list' = r.video_list
         /\ channel_cache' = r.cache
         /\ run' = [run EXCEPT !.pc = "done",
                               !.answer = answer,
                               !.messages = r.messages,
                               !.form_shown = FormShown(r.video_list),
                               !.download_shown = DownloadShown(final_pdf_data)]
  /\ UNCHANGED <<final_pdf_data, transcript_cache, other_runs>>
  /\ UNCHANGED <<normVars, asmVars, recVars, basicVars, styVars, fetchVars>>

\* the lookup service answers after an event of the page has arrived: the
\* script is stopped in the call of line 430, which assigns nothing
SearchLookupStopped ==
  /\ run.kind = "search"
  /\ run.pc = "lookup"
  /\ \E answer \in LookupAnswers :
       \E r \in { search_channel_stopped(channel_cache, run.channel_name, answer) } :
         /\ video_list' = r.video_list
         /\ channel_cache' = r.cache
         /\ run' = [run EXCEPT !.pc = "stopped", !.aborted = TRUE,
                               !.answer = answer]
  /\ UNCHANGED <<final_pdf_data, transcript_cache, other_runs>>
  /\ UNCHANGED <<normVars, asmVars, recVars, basicVars, styVars, fetchVars>>

\* a Generate run at its start: nothing fetched, processed or rendered yet
GenerateRun(n, selected, format_option) ==
  [kind |-> "generate", n |-> n, pc |-> "fetch", aborted |-> FALSE,
   selected |-> selected, format_option |-> format_option,
   fetch_invoked |-> FALSE, fetched |-> <<>>, outcomes |-> <<>>,
   transcripts |-> <<>>, raw_transcripts |-> <<>>, model_calls |-> <<>>,
   processed_transcripts |-> <<>>, renderer |-> "none",
   pdf_data |-> [kind |-> "None"], stored |-> FALSE,
   messages |-> <<>>, form_shown |-> TRUE, download_shown |-> FALSE]

\* a run of the script with the form submitted (the form exists only when
\* the video list is not empty), up to the first fetch: the whole run when
\* nothing is checked, and the replay of the memo when the selection is known
GenerateSubmit ==
  /\ CanStartRun
  /\ FormShown(video_list)
  /\ \E video_selections \in SUBSET { video_list[k].video_id : k \in 1..Len(video_list) },
        format_option \in FormatOptions :
       \E selected \in { selected_videos(video_list, video_selections) } :
         \E r \in { GenerateRun(run.n + 1, selected, format_option) } :
           run' =
             IF NothingSelected(selected)
             THEN [r EXCEPT !.pc = "done",
                            !.messages =
                              << Msg("warning", "Please select at least one video.", NoArg) >>,
                            !.download_shown = DownloadShown(final_pdf_data)]
             ELSE IF CacheHas(transcript_cache, selected)
                  THEN [r EXCEPT !.pc = "process",
                                 !.raw_transcripts =
                                   CacheGet(transcript_cache, selected).value,
                                 !.messages =
                                   CacheGet(transcript_cache, selected).messages]
                  ELSE [r EXCEPT !.fetch_invoked = TRUE]
  /\ UNCHANGED <<video_list, final_pdf_data, channel_cache, transcript_cache, other_runs>>
  /\ UNCHANGED <<normVars, asmVars, recVars, basicVars, styVars, fetchVars>>

\* one turn of the loop of get_transcripts_for_videos in a Generate run
GenerateFetchTurn ==
  /\ run.kind = "generate"
  /\ run.pc = "fetch"
  /\ LoopHasNext(run.selected, FetchedSoFar(run))
  /\ \E outcome \in FetchOutcomes :
       \E acc \in { FetchOne(FetchedSoFar(run),
                             NextPair(run.selected, FetchedSoFar(run)), outcome) } :
         run' = [run EXCEPT !.transcripts = acc.transcripts,
                            !.messages = acc.messages,
                            !.fetched = acc.fetched,
                            !.outcomes = Append(run.outcomes, outcome)]
  /\ UNCHANGED <<video_list, final_pdf_data, channel_cache, transcript_cache, other_runs>>
  /\ UNCHANGED <<normVars, asmVars, recVars, basicVars, styVars, fetchVars>>

\* a turn of that loop after an event of the page has arrived: the fetch of
\* the turn is made and the script is stopped at the message of the turn;
\* the function does not return, so nothing goes to the memo
GenerateFetchTurnStopped ==
  /\ run.kind = "generate"
  /\ run.pc = "fetch"
  /\ LoopHasNext(run.selected, FetchedSoFar(run))
  /\ \E outcome \in FetchOutcomes :
       \E acc \in { FetchOneStopped(FetchedSoFar(run),
                                    NextPair(run.selected, FetchedSoFar(run)),
                                    outcome) } :
         run' = [run EXCEPT !.pc = "stopped", !.aborted = TRUE,
                            !.transcripts = acc.transcripts,
                            !.fetched = acc.fetched,
                            !.outcomes = Append(run.outcomes, outcome)]
  /\ UNCHANGED <<video_list, final_pdf_data, channel_cache, transcript_cache, other_runs>>
  /\ UNCHANGED <<normVars, asmVars, recVars, basicVars, styVars, fetchVars>>

\* get_transcripts_for_videos returns: the dict and the messages go to the
\* memo, and raw_transcripts is the dict
GenerateFetchReturn ==
  /\ run.kind = "generate"
  /\ run.pc = "fetch"
  /\ ~LoopHasNext(run.selected, FetchedSoFar(run))
  /\ transcript_cache' =
       CachePut(transcript_cache, run.selected,
                [value |-> run.transcripts, messages |-> run.messages])
  /\ run' = [run EXCEPT !.pc = "process", !.raw_transcripts = run.transcripts]
  /\ UNCHANGED <<video_list, final_pdf_data, channel_cache, other_runs>>
  /\ UNCHANGED <<normVars, asmVars, recVars, basicVars, styVars, fetchVars>>

\* the same after an event of the page has arrived in the sleep of the last
\* turn: the function returns and the memo has its result, and the script
\* is stopped where the spinner of the decorator (show_spinner, line 96) is
\* closed: line 473 assigns nothing and the loop of line 477 is not run
GenerateFetchReturnStopped ==
  /\ run.kind = "generate"
  /\ run.pc = "fetch"
  /\ ~LoopHasNext(run.selected, FetchedSoFar(run))
  /\ transcript_cache' =
       CachePut(transcript_cache, run.selected,
                [value |-> run.transcripts, messages |-> run.messages])
  /\ run' = [run EXCEPT !.pc = "stopped", !.aborted = TRUE]
  /\ UNCHANGED <<video_list, final_pdf_data, channel_cache, other_runs>>
  /\ UNCHANGED <<normVars, asmVars, recVars, basicVars, styVars, fetchVars>>

\* the loop "for video_id, data in raw_transcripts.items()" has a turn left
ProcessHasNext(r) == Len(r.processed_transcripts) < Len(r.raw_transcripts)

\* the entry of the turn the loop makes next
NextEntry(r) == r.raw_transcripts[Len(r.processed_transcripts) + 1]

\* one turn of that loop with the original format: no call of the model and
\* nothing displayed
GenerateProcessTurn ==
  /\ run.kind = "generate"
  /\ run.pc = "process"
  /\ ProcessHasNext(run)
  /\ run.format_option = "Original Transcript"
  /\ \E acc \in { ProcessOne(
                      [processed_transcripts |-> run.processed_transcripts,
                       model_calls |-> run.model_calls],
                      NextEntry(run), run.format_option, "none") } :
       run' = [run EXCEPT !.processed_transcripts = acc.processed_transcripts,
                          !.model_calls = acc.model_calls]
  /\ UNCHANGED <<video_list, final_pdf_data, channel_cache, transcript_cache, other_runs>>
  /\ UNCHANGED <<normVars, asmVars, recVars, basicVars, styVars, fetchVars>>

\* a turn with a rewriting format up to its call of the model: the message
\* is displayed, then the script waits for generate_content
GenerateModelCall ==
  /\ run.kind = "generate"
  /\ run.pc = "process"
  /\ ProcessHasNext(run)
  /\ run.format_option # "Original Transcript"
  /\ run' = [run EXCEPT !.pc = "model",
                        !.messages =
                          run.messages \o
                            RunningMessage(NextEntry(run), run.format_option)]
  /\ UNCHANGED <<video_list, final_pdf_data, channel_cache, transcript_cache, other_runs>>
  /\ UNCHANGED <<normVars, asmVars, recVars, basicVars, styVars, fetchVars>>

\* the call of the model ends, by a response or by an exception that
\* run_gemini_model turns into a text, and the turn appends its pair
GenerateModelAnswer ==
  /\ run.kind = "generate"
  /\ run.pc = "model"
  /\ \E answer \in ModelAnswers :
       \E acc \in { ProcessOne(
                      [processed_transcripts |-> run.processed_transcripts,
                       model_calls |-> run.model_calls],
                      NextEntry(run), run.format_option, answer) } :
         run' = [run EXCEPT !.pc = "process",
                            !.processed_transcripts = acc.processed_transcripts,
                            !.model_calls = acc.model_calls]
  /\ UNCHANGED <<video_list, final_pdf_data, channel_cache, transcript_cache, other_runs>>
  /\ UNCHANGED <<normVars, asmVars, recVars, basicVars, styVars, fetchVars>>

\* the same after an event of the page has arrived: the pair is appended
\* and the script is stopped at the st.text that follows, of the next turn
\* or of step 4
GenerateModelAnswerStopped ==
  /\ run.kind = "generate"
  /\ run.pc = "model"
  /\ \E answer \in ModelAnswers :
       \E acc \in { ProcessOne(
                      [processed_transcripts |-> run.processed_transcripts,
                       model_calls |-> run.model_calls],
                      NextEntry(run), run.format_option, answer) } :
         run' = [run EXCEPT !.pc = "stopped", !.aborted = TRUE,
                            !.processed_transcripts = acc.processed_transcripts,
                            !.model_calls = acc.model_calls]
  /\ UNCHANGED <<video_list, final_pdf_data, channel_cache, transcript_cache, other_runs>>
  /\ UNCHANGED <<normVars, asmVars, recVars, basicVars, styVars, fetchVars>>

\* "else: st.error("Could not process any transcripts.")" of line 517, and
\* the rest of the script
GenerateNothingProcessed ==
  /\ run.kind = "generate"
  /\ run.pc = "process"
  /\ ~ProcessHasNext(run)
  /\ run.processed_transcripts = <<>>
  /\ run' = [run EXCEPT !.pc = "done",
                        !.messages =
                          Append(run.messages,
                                 Msg("error", "Could not process any transcripts.", NoArg)),
                        !.download_shown = DownloadShown(final_pdf_data)]
  /\ UNCHANGED <<video_list, final_pdf_data, channel_cache, transcript_cache, other_runs>>
  /\ UNCHANGED <<normVars, asmVars, recVars, basicVars, styVars, fetchVars>>

\* step 4 up to the call of the renderer: the message is displayed, then
\* the renderer works (it reads the font files, or loads the stylesheet)
GenerateRenderStart ==
  /\ run.kind = "generate"
  /\ run.pc = "process"
  /\ ~ProcessHasNext(run)
  /\ run.processed_transcripts # <<>>
  /\ run' = [run EXCEPT !.pc = "render",
                        !.renderer = RendererOf(run.format_option),
                        !.messages =
                          Append(run.messages, GeneratingMessage(run.format_option))]
  /\ UNCHANGED <<video_list, final_pdf_data, channel_cache, transcript_cache, other_runs>>
  /\ UNCHANGED <<normVars, asmVars, recVars, basicVars, styVars, fetchVars>>

\* the renderer ends, and the rest of the script runs
GenerateRender ==
  /\ run.kind = "generate"
  /\ run.pc = "render"
  /\ \E env \in RenderEnvs(run.format_option) :
       \E r \in { generate_pdf(final_pdf_data,
                               LaidOut(run.processed_transcripts, env.layout),
                               run.format_option, env) } :
         /\ final_pdf_data' = r.final_pdf_data
         /\ run' = [run EXCEPT !.pc = "done",
                               !.aborted = r.aborted,
                               !.pdf_data = r.pdf_data,
                               !.stored = r.stored,
                               !.messages = run.messages \o r.messages,
                               !.download_shown =
                                 ~r.aborted /\ DownloadShown(r.final_pdf_data)]
  /\ UNCHANGED <<video_list, channel_cache, transcript_cache, other_runs>>
  /\ UNCHANGED <<normVars, asmVars, recVars, basicVars, styVars, fetchVars>>

\* the same after an event of the page has arrived while the renderer
\* works: the script is stopped at the next call of an st function (the
\* closing of the spinner of line 470 when the renderer raises), with the
\* messages displayed before it, and with the document stored when that
\* call is the st.success of line 513
GenerateRenderStopped ==
  /\ run.kind = "generate"
  /\ run.pc = "render"
  /\ \E env \in RenderEnvs(run.format_option) :
       \E shown \in RenderStopPoints(LaidOut(run.processed_transcripts, env.layout),
                                     run.format_option, env) :
         \E r \in { generate_pdf_stopped(
                       final_pdf_data,
                       LaidOut(run.processed_transcripts, env.layout),
                       run.format_option, env, shown) } :
           /\ final_pdf_data' = r.final_pdf_data
           /\ run' = [run EXCEPT !.pc = "stopped", !.aborted = TRUE,
                                 !.pdf_data = r.pdf_data,
                                 !.stored = r.stored,
                                 !.messages = run.messages \o r.messages]
  /\ UNCHANGED <<video_list, channel_cache, transcript_cache, other_runs>>
  /\ UNCHANGED <<normVars, asmVars, recVars, basicVars, styVars, fetchVars>>

\* the selections another session can submit: the checked videos of a list
\* of its own, at least one
OtherSelections ==
  { selected_videos(VideoData(l), ids) :
      l \in VideoLists, ids \in SUBSET VideoIds } \ {<<>>}

\* a Search Channel run of another session of the same server that calls the
\* lookup service: the memo of st.cache_data is one for the whole process.
\* A key is computed under a lock, so a result is stored for a name only
\* when none is stored and none is being computed
OtherSessionSearch ==
  /\ run.n + other_runs < MaxRuns
  /\ \E channel_name \in ChannelNames \ {""}, answer \in LookupAnswers :
       /\ ~CacheHas(channel_cache, LookupKey(channel_name))
       /\ ~(run.kind = "search" /\ run.pc = "lookup"
              /\ run.channel_name = channel_name)
       /\ channel_cache' =
            CachePut(channel_cache, LookupKey(channel_name),
                     get_channel_videos(channel_name, answer))
  /\ other_runs' = other_runs + 1
  /\ UNCHANGED <<video_list, final_pdf_data, transcript_cache, run>>
  /\ UNCHANGED <<normVars, asmVars, recVars, basicVars, styVars, fetchVars>>

\* a Generate run of another session that fetches transcripts
OtherSessionGenerate ==
  /\ run.n + other_runs < MaxRuns
  /\ \E selected \in OtherSelections :
       \E outcomes \in [1..Len(selected) -> FetchOutcomes] :
         /\ ~CacheHas(transcript_cache, selected)
         /\ ~(run.kind = "generate" /\ run.pc = "fetch" /\ run.selected = selected)
         /\ \E r \in { get_transcripts_for_videos(selected, outcomes) } :
              transcript_cache' =
                CachePut(transcript_cache, selected,
                         [value |-> r.transcripts, messages |-> r.messages])
  /\ other_runs' = other_runs + 1
  /\ UNCHANGED <<video_list, final_pdf_data, channel_cache, run>>
  /\ UNCHANGED <<normVars, asmVars, recVars, basicVars, styVars, fetchVars>>

NextSession ==
  \/ Rerun
  \/ SearchChannel
  \/ SearchLookup
  \/ SearchLookupStopped
  \/ GenerateSubmit
  \/ GenerateFetchTurn
  \/ GenerateFetchTurnStopped
  \/ GenerateFetchReturn
  \/ GenerateFetchReturnStopped
  \/ GenerateProcessTurn
  \/ GenerateModelCall
  \/ GenerateModelAnswer
  \/ GenerateModelAnswerStopped
  \/ GenerateNothingProcessed
  \/ GenerateRenderStart
  \/ GenerateRender
  \/ GenerateRenderStopped
  \/ OtherSessionSearch
  \/ OtherSessionGenerate

SpecSession == InitSession /\ [][NextSession]_vars

(***************************************************************************)
(* Specification of get_transcripts_for_videos alone: lists of at most     *)
(* MaxFetch pairs, each fetch with any of its outcomes.  The call is not   *)
(* one step: every turn of the loop waits for the fetch and then sleeps a  *)
(* second, and between two turns the dict holds the transcripts fetched so *)
(* far and their messages are displayed.  A rerun request stops the script *)
(* at a call of st.success, st.warning or st.error, that is in a turn.     *)
(***************************************************************************)
FetchLists ==
  UNION { [1..n -> { <<Video(k).video_id, Video(k).title>> : k \in VideoIds }] :
            n \in 0..MaxFetch }

InitFetch ==
  /\ fetchIn \in FetchLists
  /\ fetchOutcomes \in [1..Len(fetchIn) -> FetchOutcomes]
  /\ fetchOut = NoTranscripts
  /\ fetchPc = "loop"
  /\ IdleNormalizer
  /\ IdleAssembler
  /\ IdleReconstructor
  /\ IdleBasic
  /\ IdleStyled
  /\ IdleSession

\* one turn of the loop, up to the end of its time.sleep(1)
FetchTurn ==
  /\ fetchPc = "loop"
  /\ LoopHasNext(fetchIn, fetchOut)
  /\ fetchOut' = FetchOne(fetchOut, NextPair(fetchIn, fetchOut),
                          fetchOutcomes[Len(fetchOut.fetched) + 1])
  /\ UNCHANGED <<fetchIn, fetchOutcomes, fetchPc>>
  /\ UNCHANGED <<normVars, asmVars, recVars, basicVars, styVars, sessVars>>

\* a turn in which the script is stopped at the call that displays the
\* message, an event of the page having arrived while the turn waited: the
\* fetch of the turn was made, the function does not return
FetchTurnStopped ==
  /\ fetchPc = "loop"
  /\ LoopHasNext(fetchIn, fetchOut)
  /\ fetchOut' = FetchOneStopped(fetchOut, NextPair(fetchIn, fetchOut),
                                 fetchOutcomes[Len(fetchOut.fetched) + 1])
  /\ fetchPc' = "stopped"
  /\ UNCHANGED <<fetchIn, fetchOutcomes>>
  /\ UNCHANGED <<normVars, asmVars, recVars, basicVars, styVars, sessVars>>

\* "return transcripts"
FetchReturn ==
  /\ fetchPc = "loop"
  /\ ~LoopHasNext(fetchIn, fetchOut)
  /\ fetchPc' = "done"
  /\ UNCHANGED <<fetchIn, fetchOutcomes, fetchOut>>
  /\ UNCHANGED <<normVars, asmVars, recVars, basicVars, styVars, sessVars>>

NextFetch == FetchTurn \/ FetchTurnStopped \/ FetchReturn

SpecFetch == InitFetch /\ [][NextFetch]_vars

(***************************************************************************)
(* The body of the loop of create_fancy_pdf_from_transcripts on the texts  *)
(* themselves: what becomes of the title and of the content of one pair    *)
(***************************************************************************)
VIDEO_PREFIX == <<"V","i","d","e","o",":"," ">>

\* s.replace(lit, ''): every occurrence of lit, from the left, is removed
RemoveLit(s, lit) ==
  ReSub(LAMBDA t, j : LitAt(t, j, lit),
        LAMBDA t, j : j + Len(lit),
        LAMBDA t, j : <<>>,
        s)

\* the index of the first "\n" of s, 0 if there is none
FirstNewline(s) ==
  IF \E k \in 1..Len(s) : s[k] = "\n"
  THEN MinOf({ k \in 1..Len(s) : s[k] = "\n" })
  ELSE 0

\* lines = cleaned_text.split('\n', 1); title_line and main_content_md
video_section_text(title, text) ==
  LET full_text_for_cleaning == title \o <<"\n">> \o text
      cleaned_text == clean_and_fix_text(full_text_for_cleaning)
      nl == FirstNewline(cleaned_text)
      first == IF nl = 0 THEN cleaned_text ELSE SubSeq(cleaned_text, 1, nl - 1)
  IN  [title_line |-> Strip(RemoveLit(first, VIDEO_PREFIX)),
       main_content_md |->
         IF nl = 0 THEN <<>> ELSE SubSeq(cleaned_text, nl + 1, Len(cleaned_text))]

(***************************************************************************)
(* Inputs: titles as the handler or a caller gives them, with and without  *)
(* the prefix, without whitespace at their ends; short contents            *)
(***************************************************************************)
TitlePieces == { <<"a">>, <<" ">>, <<"5",".">>, ARTIFACT, VIDEO_PREFIX }

BareTitles ==
  { t \in { Flatten(ps) : ps \in PieceSeqs(TitlePieces, MaxStyPieces) } :
      t # <<>> /\ Strip(t) = t }

StyTitles == BareTitles \cup { VIDEO_PREFIX \o t : t \in BareTitles }

ContentPieces == { <<"x">>, <<"\n">>, <<" ">>, <<"2",".">> }

StyTexts == { Flatten(ps) : ps \in PieceSeqs(ContentPieces, 2) }

(***************************************************************************)
(* Specification of the styled section                                     *)
(***************************************************************************)
InitStyled ==
  /\ styTitle \in StyTitles
  /\ styText \in StyTexts
  /\ stySection = [title_line |-> <<>>, main_content_md |-> <<>>]
  /\ styPc = "start"
  /\ IdleNormalizer
  /\ IdleAssembler
  /\ IdleReconstructor
  /\ IdleBasic
  /\ IdleSession
  /\ IdleFetch

MakeSection ==
  /\ styPc = "start"
  /\ stySection' = video_section_text(styTitle, styText)
  /\ styPc' = "done"
  /\ UNCHANGED <<styTitle, styText>>
  /\ UNCHANGED <<normVars, asmVars, recVars, basicVars, sessVars, fetchVars>>

NextStyled == MakeSection

SpecStyled == InitStyled /\ [][NextStyled]_vars

(***************************************************************************)
(* Properties of the normalizer                                            *)
(***************************************************************************)
\* C2: the normalizer is idempotent: normalizing its own result returns the
\* result unchanged.
C2_NormalizerIdempotent == normPc = "twice" => normOut2 = normOut

\* "dont .m" exercises the contraction table and both punctuation steps
C2_Witness ==
  /\ normPc = "twice"
  /\ normIn = <<"d","o","n","t"," ",".","m">>
  /\ normOut = <<"d","o","n","'","t","."," ","m">>

\* NormalizedText: no whitespace at either end, no two whitespace characters
\* in a row, no whitespace before , . ! ? and no word character right after
\* one of them
IsNormalizedText(s) ==
  /\ Len(s) > 0 => ~IsSpace(s[1]) /\ ~IsSpace(s[Len(s)])
  /\ \A i \in 1..(Len(s) - 1) :
       /\ ~(IsSpace(s[i]) /\ IsSpace(s[i + 1]))
       /\ ~(IsSpace(s[i]) /\ IsPunct(s[i + 1]))
       /\ ~(IsPunct(s[i]) /\ IsWord(s[i + 1]))

\* C9: every result of the normalizer is a NormalizedText.
C9_OutputIsNormalizedText == normPc # "start" => IsNormalizedText(normOut)

\* an input that breaks all four conditions
C9_Witness ==
  /\ normPc = "once"
  /\ normIn = <<"\n"," ",".","m">>
  /\ ~IsNormalizedText(normIn)
  /\ normOut = <<"."," ","m">>

(***************************************************************************)
(* Properties of the assembler                                             *)
(***************************************************************************)
\* the index after the run of word characters that starts at a
RECURSIVE WordEnd(_, _)
WordEnd(s, a) ==
  IF a > Len(s) \/ ~IsWord(s[a]) THEN a ELSE WordEnd(s, a + 1)

\* the words of a text: its maximal runs of word characters, whitespace and
\* punctuation being what separates them
WordsOf(s) ==
  { SubSeq(s, a, WordEnd(s, a) - 1) :
      a \in { j \in 1..Len(s) : IsWord(s[j]) /\ (j = 1 \/ ~IsWord(s[j - 1])) } }

LowerText(s) == [k \in 1..Len(s) |-> Lower(s[k])]

\* s.split('\n\n'): the parts of a text separated by a blank line
RECURSIVE SplitBlankFrom(_, _)
SplitBlankFrom(s, i) ==
  LET rest == { j \in i..(Len(s) - 1) : s[j] = "\n" /\ s[j + 1] = "\n" }
  IN  IF rest = {} THEN <<SubSeq(s, i, Len(s))>>
      ELSE <<SubSeq(s, i, MinOf(rest) - 1)>>
             \o SplitBlankFrom(s, MinOf(rest) + 2)

ParagraphsOf(s) == SplitBlankFrom(s, 1)

CeilDiv(n, d) == (n + d - 1) \div d

\* the k-th paragraph the claim expects: the normalized snippets
\* 4(k-1)+1 .. min(4k, n) joined by one space
ExpectedParagraph(k) ==
  LET first == 4 * (k - 1) + 1
      last  == Min(4 * k, Len(fragments))
  IN  Join([j \in 1..(last - first + 1) |->
              clean_transcript_basic(fragments[first + j - 1].text)], <<" ">>)

BothDone == asmDone = {"flat", "chunked"}

HasNonWs(s) == \E k \in 1..Len(s) : ~IsSpace(s[k])

\* C3 as stated: Flat and Chunked give the same set of words when whitespace
\* and punctuation are ignored.
C3_SameWords == BothDone => WordsOf(flatOut) = WordsOf(chunkOut)

\* C3 as amended: Flat and Chunked give the same set of words when
\* whitespace, punctuation and letter case are ignored.
C3_SameWordsIgnoringCase ==
  BothDone => WordsOf(LowerText(flatOut)) = WordsOf(LowerText(chunkOut))

\* two paragraphs, and a pronoun that only Flat capitalizes
C3_Witness ==
  /\ BothDone
  /\ Len(fragments) = 5
  /\ WordsOf(flatOut) # WordsOf(chunkOut)
  /\ <<"I">> \in WordsOf(flatOut)
  /\ <<"h","e">> \in WordsOf(chunkOut)

ChunkedParagraphsAsClaimed ==
  LET ps == ParagraphsOf(chunkOut)
  IN  /\ Len(ps) = CeilDiv(Len(fragments), 4)
      /\ \A k \in 1..Len(ps) : ps[k] = ExpectedParagraph(k)

\* C4 as stated: for every snippet sequence of length n the Chunked output
\* consists of exactly ceil(n / 4) paragraphs, each the normalized snippets of
\* its chunk joined by one space.
C4_ParagraphCount == "chunked" \in asmDone => ChunkedParagraphsAsClaimed

\* C4 as amended: the same for every snippet sequence of length n >= 1.
C4_ParagraphCountNonEmpty ==
  "chunked" \in asmDone /\ Len(fragments) >= 1 => ChunkedParagraphsAsClaimed

\* five snippets, one of them with a blank line of its own: two paragraphs
C4_Witness ==
  /\ "chunked" \in asmDone
  /\ Len(fragments) = 5
  /\ Len(ParagraphsOf(chunkOut)) = 2
  /\ \E k \in 1..5 : Len(ParagraphsOf(fragments[k].text)) = 2

\* C10 as stated: with at least one snippet the body is non-empty in both
\* modes; with no snippet both modes return the empty text.
C10_BodyNonEmpty ==
  /\ "flat" \in asmDone =>
       IF Len(fragments) >= 1 THEN flatOut # <<>> ELSE flatOut = <<>>
  /\ "chunked" \in asmDone =>
       IF Len(fragments) >= 1 THEN chunkOut # <<>> ELSE chunkOut = <<>>

SomeSnippetHasText == \E k \in 1..Len(fragments) : HasNonWs(fragments[k].text)

\* C10 as amended: when at least one snippet's text has a non-whitespace
\* character the body is non-empty in both modes; with no snippet both modes
\* return the empty text.
C10_BodyNonEmptyWhenText ==
  /\ "flat" \in asmDone =>
       /\ SomeSnippetHasText => flatOut # <<>>
       /\ Len(fragments) = 0 => flatOut = <<>>
  /\ "chunked" \in asmDone =>
       /\ SomeSnippetHasText => chunkOut # <<>>
       /\ Len(fragments) = 0 => chunkOut = <<>>

\* a single snippet with text among empty ones
C10_Witness ==
  /\ BothDone
  /\ SomeSnippetHasText
  /\ \E k \in 1..Len(fragments) : fragments[k].text = <<>>
  /\ flatOut # <<>>
  /\ chunkOut # <<>>

(***************************************************************************)
(* Properties of the reconstructor                                         *)
(***************************************************************************)
Count(S) == Cardinality(S)

NonWsCount(s) == Count({ k \in 1..Len(s) : ~IsSpace(s[k]) })

BomCount(s) == Count({ k \in 1..Len(s) : s[k] = BOM })

\* the occurrences of the artifact that rule 2 finds, the markers being gone
ArtifactCount(s) ==
  Count({ k \in 1..Len(RemoveBom(s)) : LitAt(RemoveBom(s), k, ARTIFACT) })

\* C1: the result never has fewer non-whitespace characters than the input,
\* the removed zero-width markers and the removed occurrences of the artifact
\* being discounted.
C1_NoContentDropped ==
  recPc = "done" =>
    NonWsCount(recOut) >=
      NonWsCount(recIn) - BomCount(recIn) - Len(ARTIFACT) * ArtifactCount(recIn)

\* a marker and an artifact are removed, the rest of the text is kept
C1_Witness ==
  /\ recPc = "done"
  /\ BomCount(recIn) = 1
  /\ ArtifactCount(recIn) = 1
  /\ NonWsCount(recOut) =
       NonWsCount(recIn) - BomCount(recIn) - Len(ARTIFACT) * ArtifactCount(recIn)
  /\ NonWsCount(recOut) > 0

\* s.split('\n'): the lines of a text
RECURSIVE SplitLinesFrom(_, _)
SplitLinesFrom(s, i) ==
  LET e == LineEnd(s, i)
  IN  IF e > Len(s) THEN <<SubSeq(s, i, Len(s))>>
      ELSE <<SubSeq(s, i, e - 1)>> \o SplitLinesFrom(s, e + 1)

LinesOf(s) == SplitLinesFrom(s, 1)

HasLine(s, l) == \E k \in 1..Len(LinesOf(s)) : LinesOf(s)[k] = l

\* the line l2 comes right after the line l1
HasLinePair(s, l1, l2) ==
  \E k \in 1..(Len(LinesOf(s)) - 1) :
    LinesOf(s)[k] = l1 /\ LinesOf(s)[k + 1] = l2

\* C6: when a line of the input is exactly the phrase, the result has the
\* line "---" with the line "## Learnings and Actionable Takeaways" right
\* after it.
C6_LearningsHeader ==
  recPc = "done" /\ HasLine(recIn, LEARNINGS) =>
    HasLinePair(recOut, <<"-","-","-">>, H2 \o LEARNINGS)

\* the phrase is a line of its own after other text
C6_Witness ==
  /\ recPc = "done"
  /\ HasLine(recIn, LEARNINGS)
  /\ Len(LinesOf(recIn)) = 2
  /\ LinesOf(recIn)[1] = <<"x">>
  /\ HasLinePair(recOut, <<"-","-","-">>, H2 \o LEARNINGS)

\* an uppercase letter, a period, then any text
IsLetterLine(l) == Len(l) >= 2 /\ IsUpper(l[1]) /\ l[2] = "."

\* 'Part <digits>:' then any text
IsPartLine(l) == LitAt(l, 1, <<"P","a","r","t"," ">>) /\ DigitsThen(l, 6, ":")

\* the line holds nothing that rules 1, 2, 6, 7, 8 or the trimming act on: no
\* marker, no artifact, no bullet, no ' * ', no space followed by digits and a
\* period, no whitespace at either end
CueFree(l) ==
  /\ \A k \in 1..Len(l) :
       /\ l[k] # BOM
       /\ l[k] # BULLET
       /\ ~LitAt(l, k, ARTIFACT)
       /\ ~LitAt(l, k, <<" ","*"," ">>)
       /\ ~(l[k] = " " /\ DigitsThen(l, k + 1, "."))
  /\ Len(l) > 0 => ~IsSpace(l[1]) /\ ~IsSpace(l[Len(l)])

\* C7 as stated: every line of the letter form becomes, whole, a level-3
\* header line of the result, whatever the rest of the line holds.
C7_LetterHeader ==
  recPc = "done" =>
    \A k \in 1..Len(LinesOf(recIn)) :
      IsLetterLine(LinesOf(recIn)[k]) => HasLine(recOut, H3 \o LinesOf(recIn)[k])

\* C7 as amended: every line of the letter form that holds no cue of another
\* rule becomes, whole, a level-3 header line of the result.
C7_LetterHeaderCueFree ==
  recPc = "done" =>
    \A k \in 1..Len(LinesOf(recIn)) :
      IsLetterLine(LinesOf(recIn)[k]) /\ CueFree(LinesOf(recIn)[k]) =>
        HasLine(recOut, H3 \o LinesOf(recIn)[k])

\* the letter line "A.x" as the second line of the text
C7_Witness ==
  /\ recPc = "done"
  /\ recIn = <<"\n","A",".","x">>
  /\ recOut = H3 \o <<"A",".","x">>

\* C8 as stated: every line of the Part form becomes, whole, a level-3
\* header line; lines of no structural pattern stay as they are; and the
\* example text gives the example result.
C8_PartHeader ==
  recPc = "done" =>
    /\ \A k \in 1..Len(LinesOf(recIn)) :
         LET l == LinesOf(recIn)[k]
         IN  /\ IsPartLine(l) => HasLine(recOut, H3 \o l)
             /\ ~IsPartLine(l) /\ ~IsLetterLine(l) /\ l # LEARNINGS =>
                  HasLine(recOut, l)
    /\ recIn = PartExample => recOut = H3 \o PartExample

\* C8 as amended: the same for the lines that hold no cue of another rule,
\* the unchanged lines being the non-empty ones.
C8_PartHeaderCueFree ==
  recPc = "done" =>
    /\ \A k \in 1..Len(LinesOf(recIn)) :
         LET l == LinesOf(recIn)[k]
         IN  /\ IsPartLine(l) /\ CueFree(l) => HasLine(recOut, H3 \o l)
             /\ (/\ ~IsPartLine(l) /\ ~IsLetterLine(l) /\ l # LEARNINGS
                 /\ l # <<>> /\ CueFree(l)) =>
                  HasLine(recOut, l)
    /\ recIn = PartExample => recOut = H3 \o PartExample

\* a Part line that is not the first line, between two plain lines
C8_Witness ==
  /\ recPc = "done"
  /\ recIn = <<"x","\n">> \o PartExample
  /\ recOut = <<"x","\n">> \o H3 \o PartExample

(***************************************************************************)
(* Properties of the basic renderer                                        *)
(***************************************************************************)
\* the structured conversion of a text fails at one of its two steps
ConversionFails(text) == ~text.render \/ ~text.write_html

\* C5: when the fonts are there, whatever the sections hold, the renderer
\* returns the bytes of a document, and every section whose structured
\* conversion failed at either step is on its page as plain text.
C5_FallbackAlwaysRenders ==
  bPc = "done" /\ bFonts = "added" =>
    /\ bResult.kind = "bytes"
    /\ \A k \in 1..Len(bSections) :
         ConversionFails(bSections[k].text) =>
           bResult.pages[k][3] = <<"plain", bSections[k].text>>

(***************************************************************************)
(* Properties of get_transcripts_for_videos                                *)
(***************************************************************************)
FetchFailed(k) == fetchOutcomes[k] # "ok"

\* C11: whatever the list and whatever each fetch does, every video of the
\* list is fetched, in order, also after a failed fetch; each failed fetch
\* displays a warning or an error naming the title of its video; and the keys
\* of the returned map are exactly the videos with a successful fetch.
C11_FetchFailureSkipsOne ==
  fetchPc = "done" =>
    /\ fetchOut.fetched = [k \in 1..Len(fetchIn) |-> fetchIn[k][1]]
    /\ Len(fetchOut.messages) = Len(fetchIn)
    /\ \A k \in 1..Len(fetchIn) :
         FetchFailed(k) =>
           /\ fetchOut.messages[k][1] \in {"warning", "error"}
           /\ fetchOut.messages[k][3] = fetchIn[k][2]
    /\ DictKeys(fetchOut.transcripts) =
         { fetchIn[k][1] : k \in { j \in 1..Len(fetchIn) : ~FetchFailed(j) } }

\* three videos, the first fetch failing and a later fetch of another video
\* succeeding
C11_Witness ==
  /\ fetchPc = "done"
  /\ Len(fetchIn) = 3
  /\ fetchOutcomes[1] = "TranscriptsDisabled"
  /\ fetchOutcomes[2] = "Exception"
  /\ fetchOutcomes[3] = "ok"
  /\ fetchIn[1][1] # fetchIn[3][1]
  /\ DictKeys(fetchOut.transcripts) = {fetchIn[3][1]}

(***************************************************************************)
(* Properties of the Generate handler                                      *)
(***************************************************************************)
\* the last run was a Generate run and its script ran to its end
GenerateDone == run.kind = "generate" /\ run.pc = "done"

\* the title of the section the handler makes for a video
SectionTitle(video_id) == <<"Video: ", Video(video_id).title>>

\* the videos whose call of the model raised in the last run
FailedRewrites ==
  { run.model_calls[k].video_id :
      k \in { j \in 1..Len(run.model_calls) : run.model_calls[j].answer = "raise" } }

\* a warning or an error naming the video is among the messages of the run
ReportedFailure(video_id) ==
  \E k \in 1..Len(run.messages) :
    /\ run.messages[k][1] \in {"warning", "error"}
    /\ run.messages[k][3] = Video(video_id).title

HasSection(video_id) ==
  \E k \in 1..Len(run.processed_transcripts) :
    run.processed_transcripts[k].title = SectionTitle(video_id)

\* C12 as stated: in a Generate run with a rewriting format that ran to its
\* end, the model was called for every fetched video also after a failed
\* call, and a video whose call failed has no section and is named in a
\* warning or an error.
C12_FailedRewriteSkipped ==
  GenerateDone /\ run.format_option # "Original Transcript" =>
    /\ Len(run.model_calls) = Len(run.raw_transcripts)
    /\ \A v \in FailedRewrites : ~HasSection(v) /\ ReportedFailure(v)

\* an error is displayed after the styled renderer was started
StyledErrorShown ==
  \E j, k \in 1..Len(run.messages) :
    /\ j < k
    /\ run.messages[j][2] = "Generating 'Fancy' PDF with WeasyPrint..."
    /\ run.messages[k][1] = "error"

\* C13 as stated: when the styled renderer gives no document, whichever of
\* its steps failed, the run stores nothing for download and displays an
\* error after the renderer was started.
C13_StyledFailureReported ==
  GenerateDone /\ run.renderer = "WeasyPrint"
    /\ run.pdf_data.kind # "bytes" =>
      /\ ~run.stored
      /\ StyledErrorShown

\* C14 as stated: at the end of a Generate run the download offers the
\* document of that run, and offers nothing when that run produced no
\* document.
C14_DownloadIsOfLastGenerate ==
  GenerateDone =>
    IF run.pdf_data.kind = "bytes"
    THEN run.download_shown /\ final_pdf_data = run.pdf_data
    ELSE ~run.download_shown

\* C15: a Generate run in which no video is checked is over in one step: it
\* displays the warning alone, calls neither the transcript fetch nor the
\* model nor a renderer, and leaves the stored document and the cache of
\* transcripts as they were.
C15_EmptySelectionDoesNothing ==
  [][ run' # run /\ run'.kind = "generate" /\ run'.selected = <<>> =>
        /\ run'.pc = "done"
        /\ run'.messages = << Msg("warning", "Please select at least one video.", NoArg) >>
        /\ ~run'.fetch_invoked
        /\ run'.fetched = <<>>
        /\ run'.raw_transcripts = <<>>
        /\ run'.model_calls = <<>>
        /\ run'.renderer = "none"
        /\ ~run'.stored
        /\ final_pdf_data' = final_pdf_data
        /\ transcript_cache' = transcript_cache ]_vars

\* a submission with nothing checked, from a list of two videos
C15_Witness ==
  /\ GenerateDone
  /\ run.selected = <<>>
  /\ Len(video_list) = 2
  /\ run.messages # <<>>

\* the titles of the sections of a document, in page order
SectionTitlesOf(doc) ==
  IF "sections" \in DOMAIN doc
  THEN [k \in 1..Len(doc.sections) |-> doc.sections[k].of.title]
  ELSE [k \in 1..Len(doc.pages) |-> doc.pages[k][2][2]]

\* every section of a document starts a page: a page of FPDF opens with the
\* header and the title, a section of the styled document other than the
\* first breaks the page
SectionsStartPages(doc) ==
  IF "sections" \in DOMAIN doc
  THEN \A k \in 2..Len(doc.sections) : doc.sections[k].page_break_before
  ELSE \A k \in 1..Len(doc.pages) :
         /\ doc.pages[k][1] = header
         /\ doc.pages[k][2][1] = "title"
         /\ \A j \in 3..Len(doc.pages[k]) : doc.pages[k][j][1] # "title"

\* the videos of the session's list that are in a set, in list order
RECURSIVE ListedFrom(_, _)
ListedFrom(ids, k) ==
  IF k > Len(video_list) THEN <<>>
  ELSE (IF video_list[k].video_id \in ids
        THEN << SectionTitle(video_list[k].video_id) >> ELSE <<>>)
       \o ListedFrom(ids, k + 1)

\* the selected videos whose fetch succeeded in the last run
FetchedOk ==
  { run.selected[k][1] :
      k \in { j \in 1..Len(run.selected) : run.outcomes[j] = "ok" } }

\* C16: the document a Generate run produces has, page after page, exactly
\* the sections of the selected videos whose transcript was fetched, once
\* each, in the order of the session's video list, each starting a page.
C16_SectionsFollowVideoList ==
  run.kind = "generate" /\ run.pdf_data.kind = "bytes" =>
    /\ run.fetch_invoked => DictKeys(run.raw_transcripts) = FetchedOk
    /\ DictKeys(run.raw_transcripts)
         \subseteq { run.selected[k][1] : k \in 1..Len(run.selected) }
    /\ SectionTitlesOf(run.pdf_data) = ListedFrom(DictKeys(run.raw_transcripts), 1)
    /\ SectionsStartPages(run.pdf_data)
    /\ final_pdf_data = run.pdf_data

\* a document of two sections from a list that has video 2 before video 1
C16_Witness ==
  /\ GenerateDone
  /\ run.fetch_invoked
  /\ run.pdf_data.kind = "bytes"
  /\ Len(video_list) = 2
  /\ video_list[1].video_id = 2
  /\ SectionTitlesOf(run.pdf_data) = << SectionTitle(2), SectionTitle(1) >>

(***************************************************************************)
(* Properties of the styled section                                        *)
(***************************************************************************)
\* the title without the prefix "Video: " at its start
WithoutPrefix(title) ==
  IF LitAt(title, 1, VIDEO_PREFIX)
  THEN SubSeq(title, Len(VIDEO_PREFIX) + 1, Len(title))
  ELSE title

\* a title that no rule of the reconstructor has a cue in
PlainTitle == <<"t">>

\* C17 as stated: the displayed title is the title given, less the prefix
\* "Video: " at its start, and the body is what the content alone gives: the
\* same as under a title that holds no cue of any rule.
C17_TitleKeptBodyFromContent ==
  styPc = "done" =>
    /\ stySection.title_line = WithoutPrefix(styTitle)
    /\ stySection.main_content_md =
         video_section_text(PlainTitle, styText).main_content_md

(***************************************************************************)
(* Properties of the removal of the artifact                               *)
(***************************************************************************)
ArtifactAt(s) == { k \in 1..Len(s) : LitAt(s, k, ARTIFACT) }

\* the occurrence at k is part of a longer word: a word character is next to it
EmbeddedAt(s, k) ==
  \/ k > 1 /\ IsWord(s[k - 1])
  \/ k + Len(ARTIFACT) <= Len(s) /\ IsWord(s[k + Len(ARTIFACT)])

\* C18 as stated: the occurrences of the artifact that are part of a longer
\* word stay in the text and the standalone ones are gone, so the result has
\* as many occurrences as the input has embedded ones.
C18_OnlyStandaloneArtifactRemoved ==
  recPc = "done" =>
    Cardinality(ArtifactAt(recOut)) =
      Cardinality({ k \in ArtifactAt(recIn) : EmbeddedAt(recIn, k) })

(***************************************************************************)
(* Properties of the choice of the renderer and of the Search handler      *)
(***************************************************************************)
\* the texts a document was laid out from, section after section: the body
\* block of each page of FPDF, the text given to clean_and_fix_text for each
\* section of the styled document
BodiesOf(doc) ==
  IF "sections" \in DOMAIN doc
  THEN [k \in 1..Len(doc.sections) |-> doc.sections[k].main_content_html]
  ELSE [k \in 1..Len(doc.pages) |-> doc.pages[k][3][2].content]

\* C19: in a Generate run the renderer is chosen by the format alone: the
\* styled one is called only when the format is the AI Explainer and the
\* basic one only when it is not, neither before every fetched transcript
\* is processed nor without a processed text, and a run that reaches step 4
\* with a processed text calls one; the basic one lays out the processed
\* texts themselves, the styled one the texts that clean_and_fix_text made
\* of title and content.
C19_RendererByFormat ==
  run.kind = "generate" =>
    /\ run.renderer = "WeasyPrint" =>
         /\ run.format_option = "AI Explainer (Detailed Notes)"
         /\ run.processed_transcripts # <<>>
         /\ Len(run.processed_transcripts) = Len(run.raw_transcripts)
    /\ run.renderer = "FPDF" =>
         /\ run.format_option # "AI Explainer (Detailed Notes)"
         /\ run.processed_transcripts # <<>>
         /\ Len(run.processed_transcripts) = Len(run.raw_transcripts)
    /\ run.pc \in {"render", "done"} =>
         ((run.renderer # "none") <=> (run.processed_transcripts # <<>>))
    /\ run.pdf_data.kind = "bytes" =>
         /\ ("sections" \in DOMAIN run.pdf_data) <=> (run.renderer = "WeasyPrint")
         /\ \A k \in 1..Len(run.processed_transcripts) :
              LET pair == run.processed_transcripts[k]
              IN  BodiesOf(run.pdf_data)[k] =
                    IF run.renderer = "WeasyPrint"
                    THEN <<"markdown",
                           <<"main_content_md",
                             <<"clean_and_fix_text", pair.title, "\n",
                               pair.text.content>>>>>>
                    ELSE pair.text.content

\* a text rewritten by the model and laid out by the basic renderer
C19_Witness ==
  /\ GenerateDone
  /\ run.format_option = "Brainrot Transcript (Gen Z)"
  /\ run.pdf_data.kind = "bytes"
  /\ run.renderer = "FPDF"
  /\ Len(run.model_calls) = 2

\* C20: every step of a run with Search Channel pressed leaves no stored
\* document, whatever the channel name and the lookup; it leaves the video
\* list empty when the name is empty, while the lookup has not answered,
\* when the lookup fails and when the script is stopped in the lookup; it
\* leaves the videos of the lookup when the script runs to its end; it shows
\* the form exactly when the list it leaves is not empty; and a stored
\* document appears only by a Generate run that stored one.
C20_SearchResets ==
  [][ /\ run' # run /\ run'.kind = "search" =>
          /\ final_pdf_data' = [kind |-> "None"]
          /\ ~run'.download_shown
          /\ run'.channel_name = "" => video_list' = <<>> /\ ~run'.lookup_invoked
          /\ run'.pc # "done" => video_list' = <<>>
          /\ run'.lookup_invoked /\ run'.answer.kind # "items" => video_list' = <<>>
          /\ run'.pc = "done" /\ run'.lookup_invoked
                /\ run'.answer.kind = "items" =>
               video_list' = VideoData(run'.answer.videos)
          /\ run'.form_shown <=> video_list' # <<>>
      /\ ~DownloadShown(final_pdf_data) /\ DownloadShown(final_pdf_data') =>
          run'.kind = "generate" /\ run'.stored ]_vars

\* a search with an empty channel name, third run of a session in which a
\* Generate run fetched transcripts
C20_Witness ==
  /\ run.kind = "search"
  /\ run.pc = "done"
  /\ run.n = 3
  /\ run.channel_name = ""
  /\ transcript_cache # <<>>
  /\ video_list = <<>>
  /\ final_pdf_data = [kind |-> "None"]

(***************************************************************************)
(* Properties of the reconstructor applied to its own result               *)
(***************************************************************************)
\* C21: the reconstructor is idempotent: clean_and_fix_text applied to a text
\* it has returned gives that text back unchanged (no second header prefix,
\* no extra line break or blank line).
C21_ReconstructorIdempotent == recPc = "again" => recOut2 = recOut

(***************************************************************************)
(* Properties of the memo of the channel lookup                            *)
(***************************************************************************)
\* the lookup of this name has been made and its result was the empty list
FailedLookupCached(cache, channel_name) ==
  /\ CacheHas(cache, LookupKey(channel_name))
  /\ CacheGet(cache, LookupKey(channel_name)).value = <<>>

\* the name given to the Search Channel run the step makes
SearchedKey == LookupKey(run'.channel_name)

\* the last run was a Search Channel run that called the lookup service and
\* the service failed: no channel of that name, or a failing call
LookupFailed ==
  /\ run.kind = "search"
  /\ run.lookup_invoked
  /\ run.answer.kind \in {"not found", "exception"}

\* the step starts a Search Channel run with the name of the last run
SearchedAgain ==
  /\ run'.n # run.n
  /\ run'.kind = "search"
  /\ run'.channel_name = run.channel_name

\* C22 as stated: a lookup failure is never retried: the Search Channel run
\* that follows a run whose lookup failed, with the same name, does not call
\* the lookup service and gives the empty list again.
C22_FailureNeverRetried ==
  [][ LookupFailed /\ SearchedAgain =>
        ~run'.lookup_invoked /\ video_list' = <<>> ]_vars

\* C22 amended: the result of a channel lookup that returns is memoised
\* under the arguments of the call, the empty list of a channel not found or
\* a failed call like any other result: a lookup that returns stores what it
\* returned, also when the script is stopped before it assigns the result;
\* an entry is never dropped or replaced, by this session or another; a
\* Search Channel run with a name whose result is stored is over in one
\* step, takes the stored result and does not call the lookup service; and
\* the Search Channel run that follows a run whose failed lookup returned,
\* with the same name, gives the empty list again without a call.  (A failed
\* lookup whose script is stopped at its st.error returns nothing.)
C22_LookupMemoised ==
  [][ /\ \A k \in 1..Len(channel_cache) :
           /\ k <= Len(channel_cache')
           /\ channel_cache'[k] = channel_cache[k]
      /\ LookupFailed /\ run.pc = "done" /\ SearchedAgain =>
           ~run'.lookup_invoked /\ video_list' = <<>>
      /\ run' # run /\ run'.kind = "search" /\ run'.channel_name # "" =>
           /\ run'.n # run.n =>
                run'.lookup_invoked = ~CacheHas(channel_cache, SearchedKey)
           /\ run'.pc = "done" =>
                /\ CacheHas(channel_cache', SearchedKey)
                /\ CacheGet(channel_cache', SearchedKey).value = video_list'
           /\ run'.lookup_invoked /\ run'.answer.kind = "items" =>
                /\ CacheHas(channel_cache', SearchedKey)
                /\ CacheGet(channel_cache', SearchedKey).value =
                     VideoData(run'.answer.videos)
           /\ run'.pc = "done" /\ run'.lookup_invoked
                 /\ run'.answer.kind # "items" =>
                FailedLookupCached(channel_cache', run'.channel_name)
           /\ CacheHas(channel_cache, SearchedKey) =>
                /\ run'.pc = "done"
                /\ channel_cache' = channel_cache
                /\ video_list' = CacheGet(channel_cache, SearchedKey).value
           /\ FailedLookupCached(channel_cache, run'.channel_name) =>
                /\ ~run'.lookup_invoked
                /\ video_list' = <<>>
    ]_vars

\* the third run is a Search Channel of "c1" that made no lookup and gave the
\* empty list: the call of an earlier run failed and its result was stored
C22_Witness ==
  /\ run.kind = "search"
  /\ run.pc = "done"
  /\ run.answer.kind = "none"
  /\ other_runs = 0
  /\ run.n = 3
  /\ run.channel_name = "c1"
  /\ ~run.lookup_invoked
  /\ video_list = <<>>
  /\ Len(channel_cache) = 2
  /\ channel_cache[2].key = LookupKey("c1")
  /\ channel_cache[2].value.messages =
       << Msg("error", "Error accessing YouTube API: ", NoArg) >>

====
